---- MODULE Spec2Model ----
(***************************************************************************)
(* A model of the stock-exchange matching service: the per-ticker          *)
(* orderbook (src/portal/orderbook.rs), the portal that wraps it with      *)
(* order info, accounts and the event history (src/portal.rs and           *)
(* src/portal/*.rs), and the dispatch of the portal's tasks to the         *)
(* investors' order channels (src/server.rs).                              *)
(*                                                                         *)
(* Units.  Prices and cash are f32 in the source.  The model uses integers:*)
(* one price unit is half a tick of the configured stock (mpf = 2 units),  *)
(* so that an off-tick price exists, and cash is counted in the same unit. *)
(* The amounts made from sizes below 2^31 are integers far below 2^24,     *)
(* which f32 holds exactly.  A wrapped size (2^32 - k) converts to f32 as  *)
(* 2^32, and an amount made from it is hi * 2^32; sums of amounts are kept *)
(* exact, as hi * 2^32 + lo: the rounding of f32 sums is not modelled.     *)
(*                                                                         *)
(* Sizes are u32 in the source.  TLC's integers stop at 2^31 - 1, so a u32 *)
(* value v >= 2^31 is written as the negative integer v - 2^32 (its two's  *)
(* complement reading).  Wrapping +/- on u32 is then plain integer +/-,    *)
(* and the comparisons of the source are the unsigned ones below.          *)
(***************************************************************************)
EXTENDS Integers, Sequences, FiniteSets, TLC

\* ------------------------------------------------------------------ bounds
\* Order ids the portal may issue in a run.
MaxOrders == 3
\* Timestamps (seconds) of the orders put to a bare order book: 0 .. MaxTime.
MaxTime == 1
\* Timestamps (seconds) of the requests put to the portal: 0 .. MaxClock.
\* Orders of one second compare Equal in a heap, so that either may pop first.
MaxClock == 0
\* Market-data subscribers a run may have.
MaxSubs == 1
\* Requests an investor's stream may bring after its Login.
MaxRequests == 2
\* Messages a subscriber's stream may bring.
MaxSubMessages == 1
\* Transports that may end in a run.
MaxDrops == 1
\* Order streams a run may open.
MaxSessions == 2
\* Market streams a run with its sends taken one by one may open.
MaxListeners == 2
\* The messages a sink holds here before a send to it waits (128 in server.rs).
SinkCapacity == 1

\* The requests one order stream session may have dispatched.
MaxForwarded == 1

\* ----------------------------------------------------------- configuration
Tickers == {"AAPL"}
Inv == {1, 2}

\* The stock universe (stocks.json): ticker -> StockRecord.
StockRecord == [t \in Tickers |-> [close_price |-> 4, lot_size |-> 10, mpf |-> 2]]

\* The investor roster (investors.json): inv_id -> cash_amount and stocks.
InvestorConfig ==
  [i \in Inv |-> [cash_amount |-> 80, stocks |-> [t \in Tickers |-> 20]]]

\* --------------------------------------------------------------- u32 sizes
\* a < b on u32 values (negative integers stand for values >= 2^31).
ULt(a, b) == IF (a < 0) = (b < 0) THEN a < b ELSE b < 0

\* std::cmp::min on u32.
UMin(a, b) == IF ULt(b, a) THEN b ELSE a

\* --------------------------------------------------------- Option<T> values
None == [some |-> FALSE]

Some(v) == [some |-> TRUE, val |-> v]

\* ------------------------------------------------- types/order.rs: ordering
\* A buy ordering that, at equal price, puts the later timestamp first.
BuyOrderCmpLaterFirst(a, b) ==
  IF a.price = b.price
    THEN IF a.timestamp = b.timestamp THEN "Equal"
         ELSE IF a.timestamp < b.timestamp THEN "Less" ELSE "Greater"
    ELSE IF a.price > b.price THEN "Greater" ELSE "Less"

\* impl Ord for BuyOrder: higher price first, then earlier timestamp.
BuyOrderCmp(a, b) ==
  IF a.price = b.price
    THEN IF a.timestamp = b.timestamp THEN "Equal"
         ELSE IF a.timestamp > b.timestamp THEN "Less" ELSE "Greater"
    ELSE IF a.price > b.price THEN "Greater" ELSE "Less"

\* impl Ord for SellOrder: lower price first, then earlier timestamp.
SellOrderCmp(a, b) ==
  IF a.price = b.price
    THEN IF a.timestamp = b.timestamp THEN "Equal"
         ELSE IF a.timestamp > b.timestamp THEN "Less" ELSE "Greater"
    ELSE IF a.price > b.price THEN "Less" ELSE "Greater"

\* How BinaryHeap::pop chooses among entries that compare Equal: the heap
\* promises no order among them, so either end of the tie may come out.
TieBreaks == {"first", "last"}

\* The greatest entries of a buy heap under BuyOrderCmp.
BuyHeapTop(heap) == {e \in heap : \A f \in heap : BuyOrderCmp(e, f) # "Less"}

\* The greatest entries of a sell heap under SellOrderCmp.
SellHeapTop(heap) == {e \in heap : \A f \in heap : SellOrderCmp(e, f) # "Less"}

\* The entry BinaryHeap::pop returns, given the greatest entries.
HeapPick(top, tie) ==
  IF tie = "first"
    THEN CHOOSE e \in top : \A f \in top : e.order_id <= f.order_id
    ELSE CHOOSE e \in top : \A f \in top : e.order_id >= f.order_id

\* ------------------------------------------------ portal/orderbook.rs: book
\* OrderBook::new
NewOrderBook == [buy_orders |-> {}, sell_orders |-> {}, lazy_deleted |-> {}]

\* A pop of the buy heap that takes no notice of the tombstones.
get_best_buy_order_any(book, tie) ==
  IF book.buy_orders = {}
    THEN [book |-> book, best |-> None]
    ELSE [book |-> [book EXCEPT !.buy_orders =
                      @ \ {HeapPick(BuyHeapTop(book.buy_orders), tie)}],
          best |-> Some(HeapPick(BuyHeapTop(book.buy_orders), tie))]

RECURSIVE get_best_buy_order(_, _)
\* Pops buy entries until one is not lazily deleted; a deleted entry is
\* dropped together with its tombstone.  Returns the book and the entry.
get_best_buy_order(book, tie) ==
  IF book.buy_orders = {}
    THEN [book |-> book, best |-> None]
    ELSE LET best_order == HeapPick(BuyHeapTop(book.buy_orders), tie)
             popped == [book EXCEPT !.buy_orders = @ \ {best_order}]
         IN IF best_order.order_id \notin book.lazy_deleted
              THEN [book |-> popped, best |-> Some(best_order)]
              ELSE get_best_buy_order(
                     [popped EXCEPT !.lazy_deleted = @ \ {best_order.order_id}], tie)

RECURSIVE get_best_sell_order(_, _)
\* The same for the sell heap.
get_best_sell_order(book, tie) ==
  IF book.sell_orders = {}
    THEN [book |-> book, best |-> None]
    ELSE LET best_order == HeapPick(SellHeapTop(book.sell_orders), tie)
             popped == [book EXCEPT !.sell_orders = @ \ {best_order}]
         IN IF best_order.order_id \notin book.lazy_deleted
              THEN [book |-> popped, best |-> Some(best_order)]
              ELSE get_best_sell_order(
                     [popped EXCEPT !.lazy_deleted = @ \ {best_order.order_id}], tie)

\* OrderbookLog values.
OrderFill(order_id, fill_size, fill_price) ==
  [log |-> "OrderLog", type |-> "OrderFill", order_id |-> order_id,
   fill_size |-> fill_size, fill_price |-> fill_price]

OrderDead(order_id) == [log |-> "OrderLog", type |-> "OrderDead", order_id |-> order_id]

OrderExecuted(order_id, ticker, size, price) ==
  [log |-> "EventLog", type |-> "OrderExecuted", order_id |-> order_id,
   ticker |-> ticker, execution_size |-> size, execution_price |-> price]

OrderAdded(order_id, ticker, direction, resting_size, limit_price) ==
  [log |-> "EventLog", type |-> "OrderAdded", order_id |-> order_id,
   ticker |-> ticker, direction |-> direction, resting_size |-> resting_size,
   limit_price |-> limit_price]

OrderRemoved(order_id) == [log |-> "EventLog", type |-> "OrderRemoved", order_id |-> order_id]

\* The two logs of one order in a trade with the event first.
generate_trade_log_event_first(ticker, order_id, fill_size, fill_price) ==
  << OrderExecuted(order_id, ticker, fill_size, fill_price),
     OrderFill(order_id, fill_size, fill_price) >>

\* The two logs of ONE order in a trade: OrderFill, then OrderExecuted.
generate_trade_log(ticker, order_id, fill_size, fill_price) ==
  << OrderFill(order_id, fill_size, fill_price),
     OrderExecuted(order_id, ticker, fill_size, fill_price) >>

\* The entries of a heap that are not lazily deleted.
LiveOrders(heap, lazy_deleted) == {e \in heap : e.order_id \notin lazy_deleted}

\* One iteration of a matching loop, as the loop saw it: the incoming order's
\* unfilled quantity on entry, the popped resting order, the trade made, and
\* the live resting orders the pop left behind on that side.
MatchIter(left_size, best, fill_size, fill_price, others) ==
  [left_size |-> left_size, best |-> best, fill_size |-> fill_size,
   fill_price |-> fill_price, others |-> others]

\* The state a matching loop starts from.
MatchStart(book, req) ==
  [book |-> book, left_size |-> req.size, responses |-> << >>, iters |-> << >>,
   panicked |-> FALSE]

\* A body of the buy loop that pushes a partly filled maker back as of the
\* incoming order's time.
buy_match_fill_restamped(st, book, best_sell_order, fill_size, fill_price, ticker, req, overflow_checks) ==
  [book |-> IF ULt(fill_size, best_sell_order.size)
              THEN [book EXCEPT !.sell_orders = @ \cup
                      {[best_sell_order EXCEPT !.size = @ - fill_size,
                                               !.timestamp = req.timestamp + 1]}]
              ELSE book,
   left_size |-> IF ULt(st.left_size, fill_size) /\ overflow_checks
                   THEN st.left_size ELSE st.left_size - fill_size,
   responses |-> st.responses
                   \o generate_trade_log(ticker, best_sell_order.order_id,
                                         fill_size, fill_price)
                   \o (IF ULt(fill_size, best_sell_order.size) THEN << >>
                       ELSE << OrderDead(best_sell_order.order_id) >>)
                   \o generate_trade_log(ticker, req.order_id, fill_size, fill_price),
   iters |-> Append(st.iters,
               MatchIter(st.left_size, best_sell_order, fill_size, fill_price,
                         LiveOrders(book.sell_orders, book.lazy_deleted))),
   panicked |-> ULt(st.left_size, fill_size) /\ overflow_checks]

\* The body of the buy loop for a popped resting order that trades: the
\* maker's logs, the maker pushed back reduced or reported dead, the taker's
\* logs, then `left_size -= fill_size`.  That is a u32 subtraction: when it
\* underflows, a build with overflow checks panics there (the book keeps what
\* the loop did to it, the logs are lost) and a build without them wraps.
buy_match_fill(st, book, best_sell_order, fill_size, fill_price, ticker, req, overflow_checks) ==
  [book |-> IF ULt(fill_size, best_sell_order.size)
              THEN [book EXCEPT !.sell_orders = @ \cup
                      {[best_sell_order EXCEPT !.size = @ - fill_size]}]
              ELSE book,
   left_size |-> IF ULt(st.left_size, fill_size) /\ overflow_checks
                   THEN st.left_size ELSE st.left_size - fill_size,
   responses |-> st.responses
                   \o generate_trade_log(ticker, best_sell_order.order_id,
                                         fill_size, fill_price)
                   \o (IF ULt(fill_size, best_sell_order.size) THEN << >>
                       ELSE << OrderDead(best_sell_order.order_id) >>)
                   \o generate_trade_log(ticker, req.order_id, fill_size, fill_price),
   iters |-> Append(st.iters,
               MatchIter(st.left_size, best_sell_order, fill_size, fill_price,
                         LiveOrders(book.sell_orders, book.lazy_deleted))),
   panicked |-> ULt(st.left_size, fill_size) /\ overflow_checks]

RECURSIVE buy_match_loop(_, _, _, _, _)
\* A turn of the buy loop that stops at a resting sell priced AT the limit.
buy_match_popped_strict(st, r, ticker, req, tie, overflow_checks) ==
  IF ~r.best.some
    THEN [st EXCEPT !.book = r.book]
    ELSE IF r.best.val.price >= req.price \/ st.left_size = 0
      THEN [st EXCEPT !.book = [r.book EXCEPT !.sell_orders = @ \cup {r.best.val}]]
      ELSE buy_match_loop(
             buy_match_fill(st, r.book, r.best.val,
                            UMin(req.size, r.best.val.size), r.best.val.price,
                            ticker, req, overflow_checks),
             ticker, req, tie, overflow_checks)

\* A turn of the buy loop that trades at the incoming order's price.
buy_match_popped_at_limit(st, r, ticker, req, tie, overflow_checks) ==
  IF ~r.best.some
    THEN [st EXCEPT !.book = r.book]
    ELSE IF r.best.val.price > req.price \/ st.left_size = 0
      THEN [st EXCEPT !.book = [r.book EXCEPT !.sell_orders = @ \cup {r.best.val}]]
      ELSE buy_match_loop(
             buy_match_fill(st, r.book, r.best.val,
                            UMin(req.size, r.best.val.size), req.price,
                            ticker, req, overflow_checks),
             ticker, req, tie, overflow_checks)

\* One turn of the while-let loop of handle_new_buy_order, given the pop r.
buy_match_popped(st, r, ticker, req, tie, overflow_checks) ==
  IF ~r.best.some
    THEN [st EXCEPT !.book = r.book]
    ELSE IF r.best.val.price > req.price \/ st.left_size = 0
      THEN [st EXCEPT !.book = [r.book EXCEPT !.sell_orders = @ \cup {r.best.val}]]
      ELSE buy_match_loop(
             buy_match_fill(st, r.book, r.best.val,
                            UMin(req.size, r.best.val.size), r.best.val.price,
                            ticker, req, overflow_checks),
             ticker, req, tie, overflow_checks)

\* The while-let loop of handle_new_buy_order.
buy_match_loop(st, ticker, req, tie, overflow_checks) ==
  IF st.panicked THEN st
  ELSE buy_match_popped(st, get_best_sell_order(st.book, tie),
                         ticker, req, tie, overflow_checks)

\* After the loop: rest the remainder (Limit and Day only) or report the
\* order dead.
buy_remaining(st, ticker, req) ==
  IF st.panicked THEN st
  ELSE IF st.left_size # 0 /\ req.limit_or_market = "Limit" /\ req.time_in_force = "Day"
    THEN [st EXCEPT
            !.book.buy_orders = @ \cup
                {[order_id |-> req.order_id, size |-> st.left_size,
                  price |-> req.price, timestamp |-> req.timestamp]},
            !.responses = Append(@, OrderAdded(req.order_id, ticker, req.direction,
                                               st.left_size, req.price))]
    ELSE [st EXCEPT !.responses = Append(@, OrderDead(req.order_id))]

\* Handle a new buy order: match against the resting sells, then the remainder.
handle_new_buy_order(book, ticker, req, tie, overflow_checks) ==
  buy_remaining(
    buy_match_loop(MatchStart(book, req), ticker, req, tie, overflow_checks),
    ticker, req)

\* The body of the sell loop for a popped resting order that trades: the
\* maker's logs, the maker pushed back reduced or reported dead, the taker's
\* logs, then `left_size -= fill_size`.  That is a u32 subtraction: when it
\* underflows, a build with overflow checks panics there (the book keeps what
\* the loop did to it, the logs are lost) and a build without them wraps.
sell_match_fill(st, book, best_buy_order, fill_size, fill_price, ticker, req, overflow_checks) ==
  [book |-> IF ULt(fill_size, best_buy_order.size)
              THEN [book EXCEPT !.buy_orders = @ \cup
                      {[best_buy_order EXCEPT !.size = @ - fill_size]}]
              ELSE book,
   left_size |-> IF ULt(st.left_size, fill_size) /\ overflow_checks
                   THEN st.left_size ELSE st.left_size - fill_size,
   responses |-> st.responses
                   \o generate_trade_log(ticker, best_buy_order.order_id,
                                         fill_size, fill_price)
                   \o (IF ULt(fill_size, best_buy_order.size) THEN << >>
                       ELSE << OrderDead(best_buy_order.order_id) >>)
                   \o generate_trade_log(ticker, req.order_id, fill_size, fill_price),
   iters |-> Append(st.iters,
               MatchIter(st.left_size, best_buy_order, fill_size, fill_price,
                         LiveOrders(book.buy_orders, book.lazy_deleted))),
   panicked |-> ULt(st.left_size, fill_size) /\ overflow_checks]

RECURSIVE sell_match_loop(_, _, _, _, _)
\* One turn of the while-let loop of handle_new_sell_order, given the pop r.
sell_match_popped(st, r, ticker, req, tie, overflow_checks) ==
  IF ~r.best.some
    THEN [st EXCEPT !.book = r.book]
    ELSE IF r.best.val.price < req.price \/ st.left_size = 0
      THEN [st EXCEPT !.book = [r.book EXCEPT !.buy_orders = @ \cup {r.best.val}]]
      ELSE sell_match_loop(
             sell_match_fill(st, r.book, r.best.val,
                            UMin(req.size, r.best.val.size), r.best.val.price,
                            ticker, req, overflow_checks),
             ticker, req, tie, overflow_checks)

\* The while-let loop of handle_new_sell_order.
sell_match_loop(st, ticker, req, tie, overflow_checks) ==
  IF st.panicked THEN st
  ELSE sell_match_popped(st, get_best_buy_order(st.book, tie),
                         ticker, req, tie, overflow_checks)

\* After the loop: rest the remainder (Limit and Day only) or report the
\* order dead.
sell_remaining(st, ticker, req) ==
  IF st.panicked THEN st
  ELSE IF st.left_size # 0 /\ req.limit_or_market = "Limit" /\ req.time_in_force = "Day"
    THEN [st EXCEPT
            !.book.sell_orders = @ \cup
                {[order_id |-> req.order_id, size |-> st.left_size,
                  price |-> req.price, timestamp |-> req.timestamp]},
            !.responses = Append(@, OrderAdded(req.order_id, ticker, req.direction,
                                               st.left_size, req.price))]
    ELSE [st EXCEPT !.responses = Append(@, OrderDead(req.order_id))]

\* Handle a new sell order: match against the resting buys, then the remainder.
handle_new_sell_order(book, ticker, req, tie, overflow_checks) ==
  sell_remaining(
    sell_match_loop(MatchStart(book, req), ticker, req, tie, overflow_checks),
    ticker, req)

handle_new_order(book, ticker, req, tie, overflow_checks) ==
  IF req.direction = "Buy"
    THEN handle_new_buy_order(book, ticker, req, tie, overflow_checks)
    ELSE handle_new_sell_order(book, ticker, req, tie, overflow_checks)

\* A cancel that reports the removal before the death.
handle_cancel_order_removed_first(book, order_id) ==
  [book |-> [book EXCEPT !.lazy_deleted = @ \cup {order_id}],
   responses |-> << OrderRemoved(order_id), OrderDead(order_id) >>,
   iters |-> << >>, panicked |-> FALSE]

\* Cancel: a tombstone in the lazily-deleted set, and two logs.
handle_cancel_order(book, order_id) ==
  [book |-> [book EXCEPT !.lazy_deleted = @ \cup {order_id}],
   responses |-> << OrderDead(order_id), OrderRemoved(order_id) >>,
   iters |-> << >>, panicked |-> FALSE]

\* A best buy price that keeps the popped order.
best_buy_price_popped(book, tie) ==
  [book |-> get_best_buy_order(book, tie).book,
   price |-> IF get_best_buy_order(book, tie).best.some
               THEN Some(get_best_buy_order(book, tie).best.val.price)
               ELSE None]

\* Best buy price: pop the best live buy and push it back.
best_buy_price(book, tie) ==
  LET r == get_best_buy_order(book, tie)
  IN IF r.best.some
       THEN [book |-> [r.book EXCEPT !.buy_orders = @ \cup {r.best.val}],
             price |-> Some(r.best.val.price)]
       ELSE [book |-> r.book, price |-> None]

\* Best sell price: pop the best live sell and push it back.
best_sell_price(book, tie) ==
  LET r == get_best_sell_order(book, tie)
  IN IF r.best.some
       THEN [book |-> [r.book EXCEPT !.sell_orders = @ \cup {r.best.val}],
             price |-> Some(r.best.val.price)]
       ELSE [book |-> r.book, price |-> None]

\* ------------------------------------------------------------- f32 amounts
\* An amount of cash is hi * 2^32 + lo.  hi is 0 unless a wrapped size
\* (>= 2^31) was turned into cash.
Cash(x) == [hi |-> 0, lo |-> x]

CashAdd(a, b) == [hi |-> a.hi + b.hi, lo |-> a.lo + b.lo]

CashNeg(a) == [hi |-> 0 - a.hi, lo |-> 0 - a.lo]

\* a >= b on amounts (the lo parts of the model stay far below 2^31).
CashGe(a, b) == a.hi > b.hi \/ (a.hi = b.hi /\ a.lo >= b.lo)

\* (size as f32) * price, for a u32 size and a price.  The sizes of the
\* model below 2^31 are small and convert exactly; its sizes from 2^31 up are
\* wrapped ones, 2^32 - k with k < 128, and f32 rounds those to 2^32.
SizeTimesPrice(size, price) ==
  IF size >= 0 THEN [hi |-> 0, lo |-> size * price]
  ELSE [hi |-> price, lo |-> 0]

\* ------------------------------------------------------- partial functions
\* HashMap::remove
MapRemove(f, k) == [x \in DOMAIN f \ {k} |-> f[x]]

\* HashMap::insert
MapInsert(f, k, v) == [x \in DOMAIN f \cup {k} |-> IF x = k THEN v ELSE f[x]]

\* --------------------------------------------- portal/stock_manager.rs
\* |ratio - floor(ratio)| < f32::EPSILON for the f32 ratio = p / mpf.  On
\* prices that are whole units the quotient is a whole number or a whole
\* number and a half; below 2^23 f32 holds either exactly, and from 2^23 on it
\* has no fraction bit left, so that the ratio is rounded to a whole number.
check_valid_price(p, mpf) == p % mpf = 0 \/ p \div mpf >= 2^23

check_valid_size(size, lot_size) == size % lot_size = 0 /\ size > 0

check_valid_order(ticker, price, size) ==
  IF ticker \in DOMAIN StockRecord
    THEN /\ check_valid_price(price, StockRecord[ticker].mpf)
         /\ check_valid_size(size, StockRecord[ticker].lot_size)
    ELSE FALSE

get_close_price(ticker) == StockRecord[ticker].close_price

\* ------------------------------------------------ portal/order_info.rs
\* OrderInfo::new
NewOrderInfo == [bind |-> << >>, resting |-> << >>]

\* Resting size of an order; an entry that has reached zero is removed.
get_resting(order_info, order_id) ==
  IF order_id \in DOMAIN order_info.resting
    THEN IF order_info.resting[order_id] = 0
           THEN [order_info |-> [order_info EXCEPT !.resting = MapRemove(@, order_id)],
                 val |-> None]
           ELSE [order_info |-> order_info, val |-> Some(order_info.resting[order_id])]
    ELSE [order_info |-> order_info, val |-> None]

\* A cancel check that does not look at the owner.
valid_cancel_order_any_owner(order_info, order_id, inv_id) ==
  LET r == get_resting(order_info, order_id)
  IN [order_info |-> r.order_info, ok |-> r.val.some]

\* Valid to cancel: the order rests and belongs to inv_id.
valid_cancel_order(order_info, order_id, inv_id) ==
  LET r == get_resting(order_info, order_id)
  IN [order_info |-> r.order_info,
      ok |-> IF r.val.some
               THEN IF order_id \in DOMAIN order_info.bind
                      THEN order_info.bind[order_id].inv_id = inv_id
                      ELSE FALSE
               ELSE FALSE]

\* Update the resting size by an event.
update_by_event(order_info, event) ==
  CASE event.type = "OrderAdded" ->
         [order_info EXCEPT !.resting = MapInsert(@, event.order_id, event.resting_size)]
    [] event.type = "OrderExecuted" ->
         LET r == get_resting(order_info, event.order_id)
         IN IF r.val.some
              THEN [r.order_info EXCEPT !.resting =
                      MapInsert(@, event.order_id, r.val.val - event.execution_size)]
              ELSE r.order_info
    [] event.type = "OrderRemoved" ->
         [order_info EXCEPT !.resting = MapRemove(@, event.order_id)]

\* Bind a new order to its static properties (the OrderRecord).
add_new_order(order_info, order_id, inv_id, req) ==
  [order_info EXCEPT !.bind =
     MapInsert(@, order_id,
       [inv_id |-> inv_id, ticker |-> req.ticker, direction |-> req.direction,
        limit_price |-> req.price, initial_size |-> req.size])]

\* --------------------------------- portal/account.rs, account_manager.rs
\* The accounts loaded from the investor roster; nobody is logged in.
NewAccountManager ==
  [accounts |-> [i \in Inv |->
                   [cash |-> Cash(InvestorConfig[i].cash_amount),
                    positions |-> InvestorConfig[i].stocks]],
   login_accs |-> {}]

PotentialBuy(total_price) == [type |-> "PotentialBuy", total_price |-> total_price]

PotentialSell(size, ticker) == [type |-> "PotentialSell", size |-> size, ticker |-> ticker]

UpdCash(inv_id, delta_cash) == [type |-> "UpdCash", inv_id |-> inv_id, delta_cash |-> delta_cash]

AddPos(inv_id, ticker, size) ==
  [type |-> "AddPos", inv_id |-> inv_id, ticker |-> ticker, size |-> size]

MinusPos(inv_id, ticker, size) ==
  [type |-> "MinusPos", inv_id |-> inv_id, ticker |-> ticker, size |-> size]

\* A check that passes any buy of an account that has cash at all.
account_valid_potential_order_any_cash(acc, p_order) ==
  IF p_order.type = "PotentialBuy"
    THEN CashGe(acc.cash, Cash(0))
    ELSE IF p_order.ticker \in DOMAIN acc.positions
           THEN ~ULt(acc.positions[p_order.ticker], p_order.size)
           ELSE FALSE

\* Account::valid_potential_order: enough cash, or enough of the ticker.
account_valid_potential_order(acc, p_order) ==
  IF p_order.type = "PotentialBuy"
    THEN CashGe(acc.cash, p_order.total_price)
    ELSE IF p_order.ticker \in DOMAIN acc.positions
           THEN ~ULt(acc.positions[p_order.ticker], p_order.size)
           ELSE FALSE

\* AccountManager::valid_potential_order
valid_potential_order(am, inv_id, p_order) ==
  IF inv_id \in DOMAIN am.accounts
    THEN account_valid_potential_order(am.accounts[inv_id], p_order)
    ELSE FALSE

\* Account::update: cash and positions; the position arithmetic is u32.
account_update(acc, upd) ==
  CASE upd.type = "UpdCash" -> [acc EXCEPT !.cash = CashAdd(@, upd.delta_cash)]
    [] upd.type = "AddPos" ->
         [acc EXCEPT !.positions =
            IF upd.ticker \in DOMAIN @
              THEN [@ EXCEPT ![upd.ticker] = @ + upd.size]
              ELSE MapInsert(@, upd.ticker, upd.size)]
    [] upd.type = "MinusPos" ->
         [acc EXCEPT !.positions =
            IF upd.ticker \in DOMAIN @
              THEN [@ EXCEPT ![upd.ticker] = @ - upd.size]
              ELSE @]

\* AccountManager::update
am_update(am, upd) ==
  IF upd.inv_id \in DOMAIN am.accounts
    THEN [am EXCEPT !.accounts[upd.inv_id] = account_update(@, upd)]
    ELSE am

\* A drawdown that adds the price of a buy instead of taking it.
update_by_potential_order_credit(am, inv_id, p_order) ==
  IF inv_id \in DOMAIN am.accounts
    THEN IF p_order.type = "PotentialBuy"
           THEN am_update(am, UpdCash(inv_id, p_order.total_price))
           ELSE am_update(am, MinusPos(inv_id, p_order.ticker, p_order.size))
    ELSE am

\* Advance drawdown: take the cash or the position of a potential order.
update_by_potential_order(am, inv_id, p_order) ==
  IF inv_id \in DOMAIN am.accounts
    THEN IF p_order.type = "PotentialBuy"
           THEN am_update(am, UpdCash(inv_id, CashNeg(p_order.total_price)))
           ELSE am_update(am, MinusPos(inv_id, p_order.ticker, p_order.size))
    ELSE am

\* Login succeeds with the password, however often.
try_login_again(am, inv_id, password_ok) ==
  IF inv_id \in DOMAIN am.accounts /\ password_ok
    THEN [am |-> [am EXCEPT !.login_accs = @ \cup {inv_id}], ok |-> TRUE]
    ELSE [am |-> am, ok |-> FALSE]

\* Login succeeds once per account, with its password.
try_login(am, inv_id, password_ok) ==
  IF inv_id \in DOMAIN am.accounts /\ password_ok /\ inv_id \notin am.login_accs
    THEN [am |-> [am EXCEPT !.login_accs = @ \cup {inv_id}], ok |-> TRUE]
    ELSE [am |-> am, ok |-> FALSE]

\* ------------------------------------------------------ portal/utils.rs
\* Account updates that refund a dead order by its initial size.
orderresponse_to_acc_update_initial(resp, order_rec, resting_size) ==
  IF resp.type = "OrderFill"
    THEN IF order_rec.direction = "Buy"
           THEN << UpdCash(order_rec.inv_id,
                     SizeTimesPrice(resp.fill_size,
                                    order_rec.limit_price - resp.fill_price)),
                   AddPos(order_rec.inv_id, order_rec.ticker, resp.fill_size) >>
           ELSE << UpdCash(order_rec.inv_id,
                     SizeTimesPrice(resp.fill_size, resp.fill_price)) >>
    ELSE IF order_rec.direction = "Buy"
           THEN IF resting_size.some
                  THEN << UpdCash(order_rec.inv_id,
                            SizeTimesPrice(order_rec.initial_size,
                                           order_rec.limit_price)) >>
                  ELSE << >>
           ELSE IF resting_size.some
                  THEN << AddPos(order_rec.inv_id, order_rec.ticker,
                                 order_rec.initial_size) >>
                  ELSE << >>

\* The account updates of one OrderResponse.
orderresponse_to_acc_update(resp, order_rec, resting_size) ==
  IF resp.type = "OrderFill"
    THEN IF order_rec.direction = "Buy"
           THEN << UpdCash(order_rec.inv_id,
                     SizeTimesPrice(resp.fill_size,
                                    order_rec.limit_price - resp.fill_price)),
                   AddPos(order_rec.inv_id, order_rec.ticker, resp.fill_size) >>
           ELSE << UpdCash(order_rec.inv_id,
                     SizeTimesPrice(resp.fill_size, resp.fill_price)) >>
    ELSE IF order_rec.direction = "Buy"
           THEN IF resting_size.some
                  THEN << UpdCash(order_rec.inv_id,
                            SizeTimesPrice(resting_size.val, order_rec.limit_price)) >>
                  ELSE << >>
           ELSE IF resting_size.some
                  THEN << AddPos(order_rec.inv_id, order_rec.ticker, resting_size.val) >>
                  ELSE << >>

\* ------------------------------------------------------------ portal.rs
\* PortalTask values.
TaskOrderAck(inv_id, seqnum, order_id) ==
  [task |-> "OrderAck", inv_id |-> inv_id, seqnum |-> seqnum, order_id |-> order_id]

TaskOrderReject(inv_id, seqnum, reason) ==
  [task |-> "OrderReject", inv_id |-> inv_id, seqnum |-> seqnum, reason |-> reason]

TaskCancelReject(inv_id, seqnum, reason) ==
  [task |-> "CancelReject", inv_id |-> inv_id, seqnum |-> seqnum, reason |-> reason]

TaskOrderResponse(inv_id, resp) ==
  [task |-> "OrderResponse", inv_id |-> inv_id, resp |-> resp]

TaskIncrementalEvent(event) == [task |-> "IncrementalEvent", event |-> event]

TaskEventHistory(sub_id, events) ==
  [task |-> "EventHistory", sub_id |-> sub_id, events |-> events]

\* Portal::new: one empty book per configured stock, the configured accounts.
NewPortal ==
  [orderbook_manager |-> [t \in Tickers |-> NewOrderBook],
   event_history |-> << >>,
   order_info |-> NewOrderInfo,
   account_manager |-> NewAccountManager,
   last_order_id |-> 0]

RECURSIVE apply_updates(_, _)
\* `for upd in updates { self.account_manager.update(upd) }`
apply_updates(am, updates) ==
  IF updates = << >> THEN am
  ELSE apply_updates(am_update(am, Head(updates)), Tail(updates))

\* An event history that takes the newest event in front.
add_event_in_front(events, event) == << event >> \o events

\* EventHistory::add_event, which update_by_event calls for each kind of
\* event: push to the end.
add_event(events, event) == Append(events, event)

\* Process one log: its task, and the portal after it.  `settled` records,
\* for an order log, what the portal saw and did to the owner's account.
process_log(portal, log) ==
  IF log.log = "OrderLog"
    THEN LET r == get_resting(portal.order_info, log.order_id)
             order_rec == r.order_info.bind[log.order_id]
             updates == orderresponse_to_acc_update(log, order_rec, r.val)
             am == apply_updates(portal.account_manager, updates)
         IN [portal |-> [portal EXCEPT !.order_info = r.order_info,
                                       !.account_manager = am],
             task |-> TaskOrderResponse(order_rec.inv_id, log),
             settled |-> << [resp |-> log, order_rec |-> order_rec,
                             resting_size |-> r.val,
                             before |-> portal.account_manager.accounts[order_rec.inv_id],
                             after |-> am.accounts[order_rec.inv_id]] >>]
    ELSE [portal |-> [portal EXCEPT
                        !.event_history = add_event(@, log),
                        !.order_info = update_by_event(@, log)],
          task |-> TaskIncrementalEvent(log),
          settled |-> << >>]

RECURSIVE process_logs(_, _, _, _)
\* Process the logs in order, collecting the tasks.
process_logs(portal, logs, tasks, settled) ==
  IF logs = << >>
    THEN [portal |-> portal, tasks |-> tasks, settled |-> settled]
    ELSE LET r == process_log(portal, Head(logs))
         IN process_logs(r.portal, Tail(logs), Append(tasks, r.task),
                         settled \o r.settled)

\* OrderbookManager::handle_orderbook_request for a new order.
handle_orderbook_request(portal, ticker, req, tie, overflow_checks) ==
  handle_new_order(portal.orderbook_manager[ticker], ticker, req, tie, overflow_checks)

\* Make a potential order from a new order request.
make_potential_order(req) ==
  IF req.direction = "Buy"
    THEN PotentialBuy(SizeTimesPrice(req.size, req.price))
    ELSE PotentialSell(req.size, req.ticker)

\* The request with the price r found, or the close price.
with_best_price(portal, req, r) ==
  [portal |-> [portal EXCEPT !.orderbook_manager[req.ticker] = r.book],
   req |-> [req EXCEPT !.price = IF r.price.some THEN r.price.val
                                 ELSE get_close_price(req.ticker)]]

\* A fill-in that leaves the request's price as the client sent it.
fill_in_market_order_keeps_price(portal, req, tie) ==
  [portal |-> portal, req |-> req]

\* Use the best opposite price, or the close price, as the request's price.
fill_in_market_order(portal, req, tie) ==
  with_best_price(portal, req,
    IF req.direction = "Buy"
      THEN best_sell_price(portal.orderbook_manager[req.ticker], tie)
      ELSE best_buy_price(portal.orderbook_manager[req.ticker], tie))

\* What a request handler of the portal returns: the portal after it, the
\* tasks, whether it panicked, and what the call observed on its way.
PortalResult(portal, tasks, panicked, settled, iters, order_id, p_order) ==
  [portal |-> portal, tasks |-> tasks, panicked |-> panicked, settled |-> settled,
   iters |-> iters, order_id |-> order_id, p_order |-> p_order]

\* What the caller of process_request gets: the tasks, or nothing when the
\* call panicked.
Returned(r) == IF r.panicked THEN << >> ELSE r.tasks

\* The request the portal hands to the order book.
ob_request(order_id, req) ==
  [order_id |-> order_id, direction |-> req.direction, size |-> req.size,
   price |-> req.price, limit_or_market |-> req.limit_or_market,
   time_in_force |-> req.time_in_force, timestamp |-> req.timestamp]

\* A handler's result from the logs it processed.
logs_result(r, iters, order_id, p_order) ==
  PortalResult(r.portal, r.tasks, FALSE, r.settled, iters, order_id, p_order)

\* The logs m of the book to tasks, with the ack put after them.
process_book_logs_ack_last(portal, ticker, m, ack, order_id, p_order) ==
  IF m.panicked
    THEN PortalResult([portal EXCEPT !.orderbook_manager[ticker] = m.book],
                      << >>, TRUE, << >>, m.iters, order_id, Some(p_order))
    ELSE logs_result(
           [process_logs([portal EXCEPT !.orderbook_manager[ticker] = m.book],
                         m.responses, << >>, << >>)
              EXCEPT !.tasks = @ \o ack],
           m.iters, order_id, Some(p_order))

\* The logs m of the book to tasks; a panic in the book unwinds through the
\* portal, which keeps the book as the panic left it.
process_book_logs(portal, ticker, m, ack, order_id, p_order) ==
  IF m.panicked
    THEN PortalResult([portal EXCEPT !.orderbook_manager[ticker] = m.book],
                      << >>, TRUE, << >>, m.iters, order_id, Some(p_order))
    ELSE logs_result(
           process_logs([portal EXCEPT !.orderbook_manager[ticker] = m.book],
                        m.responses, ack, << >>),
           m.iters, order_id, Some(p_order))

\* Process a valid new order: to the book, then the logs to tasks.
process_new_order(portal, ack, order_id, req, p_order, tie, overflow_checks) ==
  process_book_logs(portal, req.ticker,
    handle_orderbook_request(portal, req.ticker, ob_request(order_id, req),
                             tie, overflow_checks),
    ack, order_id, p_order)

InvalidPriceOrSize == "Invalid new order request: Invalid price or size"

InsufficientCashOrLot ==
  "Invalid new order request: Insufficient cash or lot to complete the order"

InvalidCancel == "Invalid cancel order request"

\* A new order that passed the account check: its id, the drawdown, the
\* registration, then the order itself.
accept_new_order(portal, inv_id, seqnum, order_id, req, p_order, tie, overflow_checks) ==
  process_new_order(
    [portal EXCEPT !.last_order_id = order_id,
                   !.account_manager = update_by_potential_order(@, inv_id, p_order),
                   !.order_info = add_new_order(@, order_id, inv_id, req)],
    << TaskOrderAck(inv_id, seqnum, order_id) >>,
    order_id, req, p_order, tie, overflow_checks)

\* An account check whose rejection takes an order id with it.
check_potential_order_takes_id(portal, inv_id, seqnum, req, p_order, tie, overflow_checks) ==
  IF valid_potential_order(portal.account_manager, inv_id, p_order)
    THEN accept_new_order(portal, inv_id, seqnum, portal.last_order_id + 1, req,
                          p_order, tie, overflow_checks)
    ELSE PortalResult([portal EXCEPT !.last_order_id = @ + 1],
           << TaskOrderReject(inv_id, seqnum, InsufficientCashOrLot) >>,
           FALSE, << >>, << >>, 0, None)

\* The account check of a priced new order.
check_potential_order(portal, inv_id, seqnum, req, p_order, tie, overflow_checks) ==
  IF valid_potential_order(portal.account_manager, inv_id, p_order)
    THEN accept_new_order(portal, inv_id, seqnum, portal.last_order_id + 1, req,
                          p_order, tie, overflow_checks)
    ELSE PortalResult(portal,
           << TaskOrderReject(inv_id, seqnum, InsufficientCashOrLot) >>,
           FALSE, << >>, << >>, 0, None)

\* A new order with its price filled in.
process_priced_order(f, inv_id, seqnum, tie, overflow_checks) ==
  check_potential_order(f.portal, inv_id, seqnum, f.req, make_potential_order(f.req),
                        tie, overflow_checks)

\* Check a new order request and process it.
process_portal_new_order(portal, inv_id, seqnum, req, tie, overflow_checks) ==
  IF check_valid_order(req.ticker, req.price, req.size)
    THEN process_priced_order(fill_in_market_order(portal, req, tie),
                              inv_id, seqnum, tie, overflow_checks)
    ELSE PortalResult(portal, << TaskOrderReject(inv_id, seqnum, InvalidPriceOrSize) >>,
                      FALSE, << >>, << >>, 0, None)

\* A cancel that passed the check: to the book, then the logs to tasks.
cancel_order(portal, ticker, order_id) ==
  logs_result(
    process_logs(
      [portal EXCEPT !.orderbook_manager[ticker] =
         handle_cancel_order(@, order_id).book],
      handle_cancel_order(portal.orderbook_manager[ticker], order_id).responses,
      << >>, << >>),
    << >>, order_id, None)

\* The cancel check v, then the cancel.
checked_cancel_order(portal, v, inv_id, seqnum, order_id) ==
  IF v.ok
    THEN cancel_order([portal EXCEPT !.order_info = v.order_info],
                      v.order_info.bind[order_id].ticker, order_id)
    ELSE PortalResult([portal EXCEPT !.order_info = v.order_info],
                      << TaskCancelReject(inv_id, seqnum, InvalidCancel) >>,
                      FALSE, << >>, << >>, 0, None)

\* Check a cancel request and process it.
process_portal_cancel_order(portal, inv_id, seqnum, order_id) ==
  checked_cancel_order(portal, valid_cancel_order(portal.order_info, order_id, inv_id),
                       inv_id, seqnum, order_id)

\* ------------------------------------------------------------------ inputs
Directions == {"Buy", "Sell"}

LimitOrMarket == {"Limit", "Market"}

TimeInForce == {"Day", "IOC"}

TheTicker == CHOOSE t \in Tickers : TRUE

Lot == StockRecord[TheTicker].lot_size

Mpf == StockRecord[TheTicker].mpf

\* New order requests that pass the tick/lot check.  The timestamp is read
\* by the session before it takes the portal lock, so arrival order at the
\* portal need not follow timestamp order.
ValidNewOrders ==
  [ticker : Tickers, direction : Directions, size : {Lot, 2 * Lot},
   price : {Mpf}, limit_or_market : LimitOrMarket,
   time_in_force : TimeInForce, timestamp : 0 .. MaxClock]

\* One request for each way of being off the tick or the lot: unknown
\* ticker, off-tick price, off-tick price of 2^23 ticks and a half, size
\* zero, size off the lot.
InvalidNewOrders ==
  LET ok == [ticker |-> TheTicker, direction |-> "Buy", size |-> Lot,
             price |-> Mpf, limit_or_market |-> "Limit",
             time_in_force |-> "Day", timestamp |-> 0]
  IN { [ok EXCEPT !.ticker = "ZZZZ"], [ok EXCEPT !.price = Mpf + 1],
       [ok EXCEPT !.price = 2^23 * Mpf + 1],
       [ok EXCEPT !.size = 0], [ok EXCEPT !.size = Lot + 1] }

NewOrderReqs == ValidNewOrders \cup InvalidNewOrders

\* The sequence numbers a client may put on a request.
SeqNums == {1, 2}

\* The tie-breaks that can matter to a pop from these heaps: both when two
\* entries of a heap compare Equal, one otherwise.
Ties(book) ==
  IF \/ \E a, b \in book.buy_orders : a # b /\ BuyOrderCmp(a, b) = "Equal"
     \/ \E a, b \in book.sell_orders : a # b /\ SellOrderCmp(a, b) = "Equal"
    THEN TieBreaks ELSE {"first"}

\* The tie-breaks for a new order request.
ReqTies(p, req) ==
  IF req.ticker \in Tickers THEN Ties(p.orderbook_manager[req.ticker]) ELSE {"first"}

\* ------------------------------------------------------------------- state
VARIABLES
  overflow_checks, \* the build: does u32 arithmetic panic on overflow?
  portal,          \* the Portal
  ingress,         \* per investor, where its session's ingress task is
  call,            \* the last accepted request: what process_request saw and did
  dead_refund,     \* per investor, the cash credited on its dead buy orders
  drawdown,        \* per order id, the potential order taken at acceptance
  charged,         \* per order id, the cash taken from its owner so far, net
  portal_lock,     \* 0, or the inv_id whose dispatch_request holds the lock
  order_channels,  \* the inv_ids with a registered order sink
  tasks,           \* the tasks of the request in dispatch not yet processed
  enqueued,        \* the message the dispatch in progress last put on an order sink
  ack_sent,        \* per order sink, the order ids whose OrderAck it was sent
  ob,              \* an OrderBook driven through handle_request directly
  ob_out,          \* what the last request to ob returned
  reply,           \* the last request put to process_request and what it returned
  answered,        \* per (inv_id, seqnum), the OrderAck / OrderReject / CancelReject
                   \* tasks emitted for it so far (counted up to two)
  acked,           \* the order ids of the OrderAck tasks emitted, in order
  market_id_counter, \* the last sub_id issued
  market_channels, \* the sub_ids with a registered market sink
  market_out,      \* per sub_id, the messages put on its market sink, in order
  order_out,       \* per inv_id, the messages put on its order sink, in order
  dropped,         \* the sinks whose receiver is gone (the transport ended)
  subscribers,     \* per sub_id, where its ingress task is and the messages
                   \* its stream has brought so far
  produced,        \* per inv_id, the order messages of the tasks the portal
                   \* has returned for it, in order
  requests,        \* per inv_id, the requests its stream has brought so far
  sessions,        \* per order stream, where its ingress task is, the inv_id
                   \* it logged in as, what it was sent, how many of its
                   \* requests went to process_request and its last message
  sinks,           \* per sink, the messages sent on it, how many of them its
                   \* receiving task has taken, and whether its receiver lives
  registry_lock,   \* who holds the order_channels lock, the market_channels lock
  sending,         \* where process_task is in the task it is on
  listeners        \* per market stream, where its ingress task is and the
                   \* messages its stream has brought so far

vars == << overflow_checks, portal, ingress, call, dead_refund, drawdown, charged,
           portal_lock, order_channels, tasks, enqueued, ack_sent, ob, ob_out,
           reply, answered, acked,
           market_id_counter, market_channels, market_out, order_out, dropped,
           subscribers, produced, requests, sessions,
           sinks, registry_lock, sending, listeners >>

portal_vars ==
  << overflow_checks, portal, ingress, call, dead_refund, drawdown, charged >>

server_vars == << portal_lock, order_channels, tasks, enqueued, ack_sent >>

book_vars == << ob, ob_out >>

request_vars == << reply, answered, acked >>

stream_vars ==
  << market_id_counter, market_channels, market_out, order_out, dropped,
     subscribers, produced, requests >>

session_vars == << sessions >>

channel_vars == << sinks, registry_lock, sending, listeners >>

client_vars == << stream_vars, session_vars, channel_vars >>

NoCall == [kind |-> "None"]

\* The order streams of a run.
Sessions == 1 .. MaxSessions

\* An order stream before its first message.
NewSession ==
  [state |-> "AwaitLogin", inv_id |-> 0, out |-> << >>, forwarded |-> 0,
   last |-> [kind |-> "None"]]

\* The market streams of a run with its sends taken one by one.
Listeners == 1 .. MaxListeners

\* The sinks of such a run: one per investor, one per market stream.
Sinks == {<< "order", i >> : i \in Inv} \cup {<< "market", b >> : b \in Listeners}

\* mpsc::channel(..): nothing sent, nothing taken, the receiver alive.
NewSink == [sent |-> << >>, taken |-> 0, open |-> TRUE]

\* process_task between two tasks.
NotSending == [step |-> "Next"]

Init ==
  /\ overflow_checks \in BOOLEAN
  /\ portal = NewPortal
  /\ ingress = [i \in Inv |-> "AwaitLogin"]
  /\ call = NoCall
  /\ dead_refund = [i \in Inv |-> Cash(0)]
  /\ drawdown = << >>
  /\ charged = << >>
  /\ portal_lock = 0
  /\ order_channels = {}
  /\ tasks = << >>
  /\ enqueued = None
  /\ ack_sent = [i \in Inv |-> {}]
  /\ ob = [book |-> NewOrderBook, last_order_id |-> 0, down |-> FALSE]
  /\ ob_out = NoCall
  /\ reply = NoCall
  /\ answered = [k \in Inv \X SeqNums |-> 0]
  /\ acked = << >>
  /\ market_id_counter = 0
  /\ market_channels = {}
  /\ market_out = [b \in 1 .. MaxSubs |-> << >>]
  /\ order_out = [i \in Inv |-> << >>]
  /\ dropped = {}
  /\ subscribers = [b \in 1 .. MaxSubs |-> [ingress |-> "Running", asked |-> 0]]
  /\ produced = [i \in Inv |-> << >>]
  /\ requests = [i \in Inv |-> 0]
  /\ sessions = [c \in Sessions |-> NewSession]
  /\ sinks = [s \in Sinks |-> NewSink]
  /\ registry_lock = [order |-> 0, market |-> 0]
  /\ sending = NotSending
  /\ listeners = [b \in Listeners |->
                    [ingress |-> "Running", asked |-> 0, owed |-> << >>]]

\* ------------------------------------------- the portal's request surface
RECURSIVE AddRefunds(_, _)
\* dead_refund after the settlements of a request: the cash credited on
\* each OrderDead of a buy order.
AddRefunds(refund, settled) ==
  IF settled = << >> THEN refund
  ELSE LET e == Head(settled)
           credited == CashAdd(e.after.cash, CashNeg(e.before.cash))
       IN AddRefunds(
            IF e.resp.type = "OrderDead" /\ e.order_rec.direction = "Buy"
              THEN [refund EXCEPT ![e.order_rec.inv_id] = CashAdd(@, credited)]
              ELSE refund,
            Tail(settled))

RECURSIVE AddCharges(_, _)
\* charged after the settlements of a request: what each order log gave
\* back to the owner's cash comes off the order's charge.
AddCharges(ch, settled) ==
  IF settled = << >> THEN ch
  ELSE LET e == Head(settled)
           credited == CashAdd(e.after.cash, CashNeg(e.before.cash))
       IN AddCharges([ch EXCEPT ![e.resp.order_id] = CashAdd(@, CashNeg(credited))],
                     Tail(settled))

\* The effect of one process_request call, given what it returned.  A panic
\* inside the call ends the calling session's ingress task.
PortalStep(inv_id, seqnum, kind, r) ==
  /\ portal' = r.portal
  /\ call' = IF r.order_id = 0 THEN NoCall
             ELSE [kind |-> kind, inv_id |-> inv_id, seqnum |-> seqnum,
                   order_id |-> r.order_id,
                   settled |-> r.settled, iters |-> r.iters, panicked |-> r.panicked,
                   tasks |-> r.tasks,
                   before |-> [accounts |-> portal.account_manager.accounts,
                               resting |-> portal.order_info.resting]]
  /\ dead_refund' = AddRefunds(dead_refund, r.settled)
  /\ drawdown' = IF r.p_order.some THEN MapInsert(drawdown, r.order_id, r.p_order.val)
                 ELSE drawdown
  /\ charged' = AddCharges(
                  IF r.p_order.some
                    THEN MapInsert(charged, r.order_id,
                           IF r.p_order.val.type = "PotentialBuy"
                             THEN r.p_order.val.total_price ELSE Cash(0))
                    ELSE charged,
                  r.settled)
  /\ ingress' = IF r.panicked THEN [ingress EXCEPT ![inv_id] = "Panicked"] ELSE ingress
  /\ UNCHANGED << overflow_checks, book_vars >>

\* Portal::try_login for a session's Login message (with the password).
TryLogin(inv_id) ==
  /\ ingress[inv_id] = "AwaitLogin"
  /\ LET r == try_login(portal.account_manager, inv_id, TRUE)
     IN /\ portal' = [portal EXCEPT !.account_manager = r.am]
        /\ ingress' = [ingress EXCEPT ![inv_id] =
                         IF r.ok THEN "Authenticated" ELSE "Closed"]
  /\ UNCHANGED << overflow_checks, call, dead_refund, drawdown, charged, book_vars >>

\* Portal::process_request(seqnum, NewOrder(inv_id, req)).
ProcessNewOrder(inv_id, seqnum, req, tie) ==
  /\ ingress[inv_id] = "Authenticated"
  /\ portal.last_order_id < MaxOrders
  /\ PortalStep(inv_id, seqnum, "NewOrder",
       process_portal_new_order(portal, inv_id, seqnum, req, tie, overflow_checks))

\* Portal::process_request(seqnum, CancelOrder(inv_id, order_id)).
ProcessCancelOrder(inv_id, seqnum, order_id) ==
  /\ ingress[inv_id] = "Authenticated"
  /\ PortalStep(inv_id, seqnum, "CancelOrder",
       process_portal_cancel_order(portal, inv_id, seqnum, order_id))

\* The portal on its own: each request is one call of its surface.
Next ==
  \/ \E i \in Inv : TryLogin(i) /\ UNCHANGED << server_vars, request_vars, client_vars >>
  \/ \E i \in Inv, req \in NewOrderReqs : \E tie \in ReqTies(portal, req) :
       ProcessNewOrder(i, 1, req, tie) /\ UNCHANGED << server_vars, request_vars, client_vars >>
  \/ \E i \in Inv, o \in 1 .. MaxOrders :
       ProcessCancelOrder(i, 1, o) /\ UNCHANGED << server_vars, request_vars, client_vars >>

Spec == Init /\ [][Next]_vars

\* ----------------------------------------------- server.rs: the dispatch
\* The new orders put to the server: one lot, any kind, and the off-tick ones.
ServerNewOrders ==
  {req \in NewOrderReqs : req.size = Lot /\ req.ticker \in Tickers}

\* RpcOrderResponse values (utils.rs).
wrap_order_ack(seqnum, order_id) ==
  [type |-> "Ack", seqnum |-> seqnum, order_id |-> order_id]

wrap_order_reject(seqnum, reason) == [type |-> "Rej", seqnum |-> seqnum, reason |-> reason]

wrap_cancel_reject(seqnum, reason) ==
  [type |-> "CancelRej", seqnum |-> seqnum, reason |-> reason]

wrap_order_response(resp) ==
  IF resp.type = "OrderFill"
    THEN [type |-> "Fill", order_id |-> resp.order_id, price |-> resp.fill_price,
          size |-> resp.fill_size]
    ELSE [type |-> "Dead", order_id |-> resp.order_id]

\* What process_task puts on an order sink for a task, and on whose.
order_message(task) ==
  CASE task.task = "OrderAck" ->
         Some([inv_id |-> task.inv_id,
               msg |-> wrap_order_ack(task.seqnum, task.order_id)])
    [] task.task = "OrderReject" ->
         Some([inv_id |-> task.inv_id,
               msg |-> wrap_order_reject(task.seqnum, task.reason)])
    [] task.task = "CancelReject" ->
         Some([inv_id |-> task.inv_id,
               msg |-> wrap_cancel_reject(task.seqnum, task.reason)])
    [] task.task = "OrderResponse" ->
         Some([inv_id |-> task.inv_id, msg |-> wrap_order_response(task.resp)])
    [] OTHER -> None

\* send_order, the Login message: try_login under the portal lock, then the
\* session's sink goes into order_channels and LoginAck onto it.
SendOrderLogin(inv_id) ==
  /\ portal_lock = 0
  /\ TryLogin(inv_id)
  /\ order_channels' = IF ingress'[inv_id] = "Authenticated"
                         THEN order_channels \cup {inv_id} ELSE order_channels
  /\ enqueued' = Some([inv_id |-> inv_id,
                       msg |-> [type |-> IF ingress'[inv_id] = "Authenticated"
                                           THEN "LoginAck" ELSE "LoginRej"]])
  /\ UNCHANGED << portal_lock, tasks, ack_sent, request_vars, client_vars >>

\* dispatch_request for a new order: the lock is taken and process_request
\* runs; what it returned is in `tasks` for the loop.  A panic in it ends the
\* session's task and, on unwinding, releases the lock.
DispatchNewOrder(inv_id, seqnum, req, tie) ==
  /\ portal_lock = 0
  /\ ProcessNewOrder(inv_id, seqnum, req, tie)
  /\ portal_lock' = IF call'.kind # "None" /\ call'.panicked THEN 0 ELSE inv_id
  /\ tasks' = process_portal_new_order(portal, inv_id, seqnum, req, tie,
                                       overflow_checks).tasks
  /\ enqueued' = None
  /\ UNCHANGED << order_channels, ack_sent, request_vars, client_vars >>

\* dispatch_request for a cancel.
DispatchCancelOrder(inv_id, seqnum, order_id) ==
  /\ portal_lock = 0
  /\ ProcessCancelOrder(inv_id, seqnum, order_id)
  /\ portal_lock' = inv_id
  /\ tasks' = process_portal_cancel_order(portal, inv_id, seqnum, order_id).tasks
  /\ enqueued' = None
  /\ UNCHANGED << order_channels, ack_sent, request_vars, client_vars >>

\* One turn of the loop of dispatch_request: process_task on the next task.
\* A task for an investor goes onto that investor's order sink; an
\* IncrementalEvent goes to the market subscribers, of which there are none.
ProcessTask ==
  /\ portal_lock # 0
  /\ tasks # << >>
  /\ tasks' = Tail(tasks)
  /\ enqueued' = order_message(Head(tasks))
  /\ ack_sent' = IF Head(tasks).task = "OrderAck"
                   THEN [ack_sent EXCEPT ![Head(tasks).inv_id] =
                           @ \cup {Head(tasks).order_id}]
                   ELSE ack_sent
  /\ UNCHANGED << portal_vars, book_vars, portal_lock, order_channels, request_vars, client_vars >>

\* The end of dispatch_request: the lock guard is dropped.
EndDispatch ==
  /\ portal_lock # 0
  /\ tasks = << >>
  /\ portal_lock' = 0
  /\ enqueued' = None
  /\ UNCHANGED << portal_vars, book_vars, order_channels, tasks, ack_sent, request_vars, client_vars >>

NextServer ==
  \/ \E i \in Inv : SendOrderLogin(i)
  \/ \E i \in Inv, n \in SeqNums, req \in ServerNewOrders :
       \E tie \in ReqTies(portal, req) : DispatchNewOrder(i, n, req, tie)
  \/ \E i \in Inv, n \in SeqNums, o \in 1 .. MaxOrders : DispatchCancelOrder(i, n, o)
  \/ ProcessTask
  \/ EndDispatch

SpecServer == Init /\ [][NextServer]_vars

\* --------------------------------- server.rs: the streams and their sinks
\* Investors' order streams and subscribers' market streams together.  The
\* sinks are on record with what was put on them; a transport may end, which
\* drops the receiver of its sink.
wrap_direction(direction) == IF direction = "Buy" THEN 0 ELSE 1

\* RpcSubscribeResponse values (utils.rs).
wrap_event(event) ==
  CASE event.type = "OrderAdded" ->
         [type |-> "Added", order_id |-> event.order_id, ticker |-> event.ticker,
          direction |-> wrap_direction(event.direction),
          limit_price |-> event.limit_price, size |-> event.resting_size]
    [] event.type = "OrderExecuted" ->
         [type |-> "Executed", order_id |-> event.order_id, ticker |-> event.ticker,
          execution_price |-> event.execution_price,
          execution_size |-> event.execution_size]
    [] OTHER -> [type |-> "Removed", order_id |-> event.order_id]

\* The events of a history, wrapped one by one.
wrap_events(events) == [j \in DOMAIN events |-> wrap_event(events[j])]

\* Portal::process_request(seqnum, EventHistory(sub_id)).
process_event_history(p, sub_id) ==
  << TaskEventHistory(sub_id, p.event_history) >>

\* The sink of an investor's order stream, of a subscriber's market stream.
OrderSink(inv_id) == << "order", inv_id >>

MarketSink(sub_id) == << "market", sub_id >>

\* The lock holder when a subscriber's task runs dispatch_request.
SubscriberTask(sub_id) == 0 - sub_id

RECURSIVE OrderMessages(_, _)
\* The order messages for inv_id among the tasks, in order.
OrderMessages(ts, inv_id) ==
  IF ts = << >> THEN << >>
  ELSE (IF order_message(Head(ts)).some /\ order_message(Head(ts)).val.inv_id = inv_id
          THEN << order_message(Head(ts)).val.msg >> ELSE << >>)
       \o OrderMessages(Tail(ts), inv_id)

LoginAck(n) == [type |-> "LoginAck", seqnum |-> n]

\* send_order, the Login message of an investor's stream: try_login under
\* the portal lock, then the sink goes into order_channels and LoginAck
\* onto it.
StreamLogin(inv_id) ==
  /\ portal_lock = 0
  /\ TryLogin(inv_id)
  /\ order_channels' = order_channels \cup {inv_id}
  /\ order_out' = [order_out EXCEPT ![inv_id] = Append(@, LoginAck(1))]
  /\ UNCHANGED << portal_lock, tasks, enqueued, ack_sent, request_vars,
                  market_id_counter, market_channels, market_out, dropped,
                  subscribers, produced, requests, session_vars, channel_vars >>

\* dispatch_request up to the loop: the lock is taken, process_request runs
\* and what it returned is in `tasks`.  A panic in it unwinds, which drops
\* the lock guard.
StreamDispatch(holder, r) ==
  /\ portal_lock = 0
  /\ portal' = r.portal
  /\ tasks' = Returned(r)
  /\ portal_lock' = IF r.panicked THEN 0 ELSE holder
  /\ produced' = [i \in Inv |-> produced[i] \o OrderMessages(Returned(r), i)]
  /\ UNCHANGED << overflow_checks, call, dead_refund, drawdown, charged,
                  order_channels, enqueued, ack_sent, book_vars, request_vars,
                  market_id_counter, market_channels, market_out, order_out,
                  dropped, session_vars, channel_vars >>

\* The new orders put to the server here: one lot, Limit, Day.
StreamOrders ==
  {req \in ValidNewOrders :
     req.size = Lot /\ req.limit_or_market = "Limit" /\ req.time_in_force = "Day"}

\* The stream of a logged-in investor brings one more request.
InvestorRequest(inv_id) ==
  /\ ingress[inv_id] = "Authenticated"
  /\ OrderSink(inv_id) \notin dropped
  /\ requests[inv_id] < MaxRequests
  /\ requests' = [requests EXCEPT ![inv_id] = @ + 1]

\* A NewOrder message of an investor's stream.
StreamNewOrder(inv_id, seqnum, req, tie) ==
  /\ InvestorRequest(inv_id)
  /\ portal.last_order_id < MaxOrders
  /\ StreamDispatch(inv_id, process_portal_new_order(portal, inv_id, seqnum, req, tie,
                                                     overflow_checks))
  /\ ingress' = IF process_portal_new_order(portal, inv_id, seqnum, req, tie,
                                            overflow_checks).panicked
                  THEN [ingress EXCEPT ![inv_id] = "Panicked"] ELSE ingress
  /\ UNCHANGED subscribers

\* A CancelOrder message of an investor's stream.
StreamCancelOrder(inv_id, seqnum, order_id) ==
  /\ InvestorRequest(inv_id)
  /\ StreamDispatch(inv_id, process_portal_cancel_order(portal, inv_id, seqnum, order_id))
  /\ UNCHANGED << ingress, subscribers >>

\* subscribe: a new sub_id, and the stream's sink into market_channels.
Subscribe ==
  /\ market_id_counter < MaxSubs
  /\ market_id_counter' = market_id_counter + 1
  /\ market_channels' = market_channels \cup {market_id_counter + 1}
  /\ UNCHANGED << portal_vars, server_vars, book_vars, request_vars, market_out,
                  order_out, dropped, subscribers, produced, requests,
                  session_vars, channel_vars >>

\* A message of a subscriber's stream: dispatch_request(0, EventHistory(sub_id)).
SubscribeMessage(sub_id) ==
  /\ sub_id \in market_channels
  /\ MarketSink(sub_id) \notin dropped
  /\ subscribers[sub_id].ingress = "Running"
  /\ subscribers[sub_id].asked < MaxSubMessages
  /\ StreamDispatch(SubscriberTask(sub_id),
       PortalResult(portal, process_event_history(portal, sub_id),
                    FALSE, << >>, << >>, 0, None))
  /\ subscribers' = [subscribers EXCEPT ![sub_id].asked = @ + 1]
  /\ UNCHANGED << ingress, requests >>

\* The task that runs dispatch_request panics on `tx.send(..).await.unwrap()`:
\* the loop ends there and the unwinding drops the lock guard.
SendPanics ==
  /\ tasks' = << >>
  /\ portal_lock' = 0
  /\ ingress' = IF portal_lock \in Inv
                  THEN [ingress EXCEPT ![portal_lock] = "Panicked"] ELSE ingress
  /\ subscribers' = IF portal_lock \in Inv THEN subscribers
                    ELSE [subscribers EXCEPT ![0 - portal_lock].ingress = "Panicked"]

\* The loop goes on to the next task.
SendDone ==
  /\ tasks' = Tail(tasks)
  /\ UNCHANGED << portal_lock, ingress, subscribers >>

\* process_task for a task of an investor: the message onto the investor's
\* order sink, whose receiver may be gone.
OrderTask(m) ==
  /\ IF OrderSink(m.inv_id) \in dropped
       THEN SendPanics /\ UNCHANGED order_out
       ELSE SendDone /\ order_out' = [order_out EXCEPT ![m.inv_id] = Append(@, m.msg)]
  /\ UNCHANGED market_out

\* process_task for an IncrementalEvent: the sub_ids are read from
\* market_channels, then the event goes onto each one's sink in the order the
\* map yields them; with a receiver gone, the sinks before it in that order
\* (`got`) have the event and the others do not.
IncrementalEventTask(event) ==
  /\ IF \E b \in market_channels : MarketSink(b) \in dropped
       THEN /\ SendPanics
            /\ \E got \in SUBSET {b \in market_channels : MarketSink(b) \notin dropped} :
                 market_out' = [b \in DOMAIN market_out |->
                                  IF b \in got THEN Append(market_out[b], wrap_event(event))
                                  ELSE market_out[b]]
       ELSE /\ SendDone
            /\ market_out' = [b \in DOMAIN market_out |->
                                IF b \in market_channels
                                  THEN Append(market_out[b], wrap_event(event))
                                  ELSE market_out[b]]
  /\ UNCHANGED order_out

\* process_task for an EventHistory: every event onto the subscriber's sink.
EventHistoryTask(sub_id, events) ==
  /\ IF MarketSink(sub_id) \in dropped /\ events # << >>
       THEN SendPanics /\ UNCHANGED market_out
       ELSE SendDone /\ market_out' = [market_out EXCEPT ![sub_id] = @ \o wrap_events(events)]
  /\ UNCHANGED order_out

\* One turn of the loop of dispatch_request: process_task on the next task.
StreamTask ==
  /\ portal_lock # 0
  /\ tasks # << >>
  /\ CASE Head(tasks).task = "IncrementalEvent" -> IncrementalEventTask(Head(tasks).event)
       [] Head(tasks).task = "EventHistory" ->
            EventHistoryTask(Head(tasks).sub_id, Head(tasks).events)
       [] OTHER -> OrderTask(order_message(Head(tasks)).val)
  /\ UNCHANGED << overflow_checks, portal, call, dead_refund, drawdown, charged,
                  order_channels, enqueued, ack_sent, book_vars, request_vars,
                  market_id_counter, market_channels, dropped, produced, requests,
                  session_vars, channel_vars >>

\* The end of dispatch_request: the lock guard is dropped.
StreamEnd ==
  /\ portal_lock # 0
  /\ tasks = << >>
  /\ portal_lock' = 0
  /\ UNCHANGED << portal_vars, order_channels, tasks, enqueued, ack_sent, book_vars,
                  request_vars, client_vars >>

\* A client's transport ends: the task that forwards its sink to the
\* transport fails on its next message and drops the sink's receiver.
DropReceiver(sink) ==
  /\ Cardinality(dropped) < MaxDrops
  /\ sink \notin dropped
  /\ dropped' = dropped \cup {sink}
  /\ UNCHANGED << portal_vars, server_vars, book_vars, request_vars,
                  market_id_counter, market_channels, market_out, order_out,
                  subscribers, produced, requests, session_vars, channel_vars >>

NextStreams ==
  \/ \E i \in Inv : StreamLogin(i)
  \/ \E i \in Inv, req \in StreamOrders : \E tie \in ReqTies(portal, req) :
       StreamNewOrder(i, 1, req, tie)
  \/ \E i \in Inv, o \in 1 .. MaxOrders : StreamCancelOrder(i, 1, o)
  \/ Subscribe
  \/ \E b \in market_channels : SubscribeMessage(b)
  \/ StreamTask
  \/ StreamEnd
  \/ \E i \in order_channels : DropReceiver(OrderSink(i))
  \/ \E b \in market_channels : DropReceiver(MarketSink(b))

SpecStreams == Init /\ [][NextStreams]_vars

\* ------------------------------------ server.rs: the order stream sessions
\* Any number of order streams may name the same investor.  Here each stream
\* is a session of its own, from its first message on; a dispatch is taken
\* whole, the portal lock being held from process_request to its last task.
LoginRej(n, reason) == [type |-> "LoginRej", seqnum |-> n, reason |-> reason]

LoginFailed == "login failed"

InvalidFirstRequest == "invalid first request"

\* An investor id that is in no roster.
UnknownInv == CHOOSE n \in 1 .. Cardinality(Inv) + 1 : n \notin Inv

\* The Login messages a stream may bring.
Logins ==
  [kind : {"Login"}, inv_id : Inv \cup {UnknownInv}, password_ok : BOOLEAN,
   seqnum : SeqNums]

\* What `in_stream.message().await` may give that is no Login: another
\* request, a message with no request in it, the end of the stream, an error.
NotLogins ==
  {[kind |-> k] : k \in {"NewOrder", "CancelOrder", "Empty", "End", "Error"}}

\* A session that took every first message for a Login of investor 1.
await_login_any(am, first) ==
  [am |-> am, state |-> "Authenticated", inv_id |-> 1,
   out |-> << LoginAck(0) >>]

\* send_order up to the message loop: the first message of the stream.  A
\* Login goes to try_login and is answered by LoginAck or LoginRej("login
\* failed"); anything else is answered by LoginRej(0, "invalid first
\* request").  Only after a LoginAck does the task go on to the loop.
await_login(am, first) ==
  IF first.kind = "Login"
    THEN IF try_login(am, first.inv_id, first.password_ok).ok
           THEN [am |-> try_login(am, first.inv_id, first.password_ok).am,
                 state |-> "Authenticated", inv_id |-> first.inv_id,
                 out |-> << LoginAck(first.seqnum) >>]
           ELSE [am |-> try_login(am, first.inv_id, first.password_ok).am,
                 state |-> "Closed", inv_id |-> 0,
                 out |-> << LoginRej(first.seqnum, LoginFailed) >>]
    ELSE [am |-> am, state |-> "Closed", inv_id |-> 0,
          out |-> << LoginRej(0, InvalidFirstRequest) >>]

\* The first message of a session.
SessionFirst(c, first) ==
  /\ sessions[c].state = "AwaitLogin"
  /\ portal' = [portal EXCEPT !.account_manager =
                  await_login(portal.account_manager, first).am]
  /\ sessions' = [sessions EXCEPT ![c] =
       [state |-> await_login(portal.account_manager, first).state,
        inv_id |-> await_login(portal.account_manager, first).inv_id,
        out |-> await_login(portal.account_manager, first).out,
        forwarded |-> 0, last |-> first]]
  /\ order_channels' =
       IF await_login(portal.account_manager, first).state = "Authenticated"
         THEN order_channels \cup {await_login(portal.account_manager, first).inv_id}
         ELSE order_channels
  /\ UNCHANGED << overflow_checks, ingress, call, dead_refund, drawdown, charged,
                  portal_lock, tasks, enqueued, ack_sent, book_vars, request_vars,
                  stream_vars, channel_vars >>

\* The sessions after a dispatch by session c: the request counted, and on
\* every logged-in session's sink the order messages of the tasks for its
\* investor.
Dispatched(c, msg, ts) ==
  [d \in Sessions |->
     [sessions[d] EXCEPT
        !.out = IF sessions[d].inv_id \in Inv
                  THEN @ \o OrderMessages(ts, sessions[d].inv_id) ELSE @,
        !.forwarded = IF d = c THEN @ + 1 ELSE @,
        !.last = IF d = c THEN msg ELSE @]]

\* A NewOrder or CancelOrder message of a session in its message loop:
\* dispatch_request, whole.
SessionDispatch(c, msg, r) ==
  /\ sessions[c].state = "Authenticated"
  /\ sessions[c].forwarded < MaxForwarded
  /\ portal' = r.portal
  /\ sessions' = Dispatched(c, msg, Returned(r))
  /\ UNCHANGED << overflow_checks, ingress, call, dead_refund, drawdown, charged,
                  server_vars, book_vars, request_vars, stream_vars, channel_vars >>

SessionNewOrder(c, req, tie) ==
  /\ portal.last_order_id < MaxOrders
  /\ SessionDispatch(c, [kind |-> "NewOrder"],
       process_portal_new_order(portal, sessions[c].inv_id, 1, req, tie,
                                overflow_checks))

SessionCancelOrder(c, order_id) ==
  SessionDispatch(c, [kind |-> "CancelOrder"],
    process_portal_cancel_order(portal, sessions[c].inv_id, 1, order_id))

\* A Login message in the message loop: parse_seqnum reads its seqnum, then
\* parse_order_request panics ("invalid request") and the task is gone.
SessionLoginAgain(c, login) ==
  /\ sessions[c].state = "Authenticated"
  /\ sessions' = [sessions EXCEPT ![c].state = "Panicked", ![c].last = login]
  /\ UNCHANGED << portal_vars, server_vars, book_vars, request_vars, stream_vars, channel_vars >>

\* The stream of a session in its message loop ends.
SessionEnd(c) ==
  /\ sessions[c].state = "Authenticated"
  /\ sessions' = [sessions EXCEPT ![c].state = "Ended", ![c].last = [kind |-> "End"]]
  /\ UNCHANGED << portal_vars, server_vars, book_vars, request_vars, stream_vars, channel_vars >>

NextSessions ==
  \/ \E c \in Sessions, first \in Logins \cup NotLogins : SessionFirst(c, first)
  \/ \E c \in Sessions, req \in StreamOrders : \E tie \in ReqTies(portal, req) :
       SessionNewOrder(c, req, tie)
  \/ \E c \in Sessions, o \in 1 .. MaxOrders : SessionCancelOrder(c, o)
  \/ \E c \in Sessions, login \in Logins : SessionLoginAgain(c, login)
  \/ \E c \in Sessions : SessionEnd(c)

SpecSessions == Init /\ [][NextSessions]_vars

\* ------------------------------------- server.rs: the sends, one by one
\* dispatch_request and process_task with every lock, lookup and send a step
\* of its own, the sinks with their capacity, and the tasks that take the
\* messages off the sinks.  Each investor has one order stream here.

\* The messages waiting on a sink.
QueueLen(s) == Len(sinks[s].sent) - sinks[s].taken

\* A send to the sink would wait.
Full(s) == QueueLen(s) >= SinkCapacity

\* HashMap::insert that drops the sender.
register_nothing(channels, id) == channels

\* HashMap::insert into order_channels or market_channels.
register(channels, id) == channels \cup {id}

\* What the steps here leave alone.
ChanFrame ==
  UNCHANGED << call, dead_refund, drawdown, charged, enqueued, ack_sent, book_vars,
               request_vars, market_out, order_out, dropped, subscribers,
               session_vars >>

\* send_order: the Login of investor i's stream, try_login under the portal
\* lock.
ChanTryLogin(i) ==
  /\ ingress[i] = "AwaitLogin"
  /\ portal_lock = 0
  /\ portal' = [portal EXCEPT !.account_manager = try_login(@, i, TRUE).am]
  /\ ingress' = [ingress EXCEPT ![i] =
        IF try_login(portal.account_manager, i, TRUE).ok THEN "LoggedIn" ELSE "Closed"]
  /\ UNCHANGED << overflow_checks, portal_lock, order_channels, tasks,
                  market_id_counter, market_channels, produced, requests,
                  channel_vars >>
  /\ ChanFrame

\* send_order: the sink's sender goes into order_channels, under its lock.
ChanRegister(i) ==
  /\ ingress[i] = "LoggedIn"
  /\ registry_lock.order = 0
  /\ order_channels' = register(order_channels, i)
  /\ ingress' = [ingress EXCEPT ![i] = "Registered"]
  /\ UNCHANGED << overflow_checks, portal, portal_lock, tasks, market_id_counter,
                  market_channels, produced, requests, channel_vars >>
  /\ ChanFrame

\* send_order: LoginAck onto the sink, then the message loop.
ChanLoginAck(i) ==
  /\ ingress[i] = "Registered"
  /\ ~Full(OrderSink(i))
  /\ sinks' = [sinks EXCEPT ![OrderSink(i)].sent = Append(@, LoginAck(1))]
  /\ ingress' = [ingress EXCEPT ![i] = "Authenticated"]
  /\ UNCHANGED << overflow_checks, portal, portal_lock, order_channels, tasks,
                  market_id_counter, market_channels, produced, requests,
                  registry_lock, sending, listeners >>
  /\ ChanFrame

RECURSIVE EventMessages(_)
\* The market messages of the IncrementalEvent tasks among the tasks, in order.
EventMessages(ts) ==
  IF ts = << >> THEN << >>
  ELSE (IF Head(ts).task = "IncrementalEvent"
          THEN << wrap_event(Head(ts).event) >> ELSE << >>)
       \o EventMessages(Tail(ts))

\* The market messages of the tasks that sub_id is due for sure: those of the
\* events, if it is registered by now, and the history it asked for.
Owed(ts, sub_id) ==
  (IF sub_id \in market_channels THEN EventMessages(ts) ELSE << >>)
  \o (IF ts # << >> /\ Head(ts).task = "EventHistory" /\ Head(ts).sub_id = sub_id
        THEN wrap_events(Head(ts).events) ELSE << >>)

\* dispatch_request up to its loop, by task `holder`: the portal lock is
\* taken, process_request has run, its tasks are to be processed.
ChanDispatch(holder, r) ==
  /\ portal_lock = 0
  /\ portal' = r.portal
  /\ tasks' = Returned(r)
  /\ portal_lock' = IF r.panicked THEN 0 ELSE holder
  /\ produced' = [i \in Inv |-> produced[i] \o OrderMessages(Returned(r), i)]
  /\ listeners' = [b \in Listeners |->
       [listeners[b] EXCEPT
          !.owed = @ \o Owed(Returned(r), b),
          !.asked = IF holder = SubscriberTask(b) THEN @ + 1 ELSE @]]
  /\ UNCHANGED << overflow_checks, order_channels, market_id_counter,
                  market_channels, sinks, registry_lock, sending >>
  /\ ChanFrame

\* A NewOrder message of investor i's stream.
ChanNewOrder(i, req, tie) ==
  /\ ingress[i] = "Authenticated"
  /\ requests[i] < MaxForwarded
  /\ portal.last_order_id < MaxOrders
  /\ requests' = [requests EXCEPT ![i] = @ + 1]
  /\ ChanDispatch(i, process_portal_new_order(portal, i, 1, req, tie, overflow_checks))
  /\ ingress' = IF process_portal_new_order(portal, i, 1, req, tie,
                                            overflow_checks).panicked
                  THEN [ingress EXCEPT ![i] = "Panicked"] ELSE ingress

\* subscribe: a new sub_id, and the sink's sender into market_channels under
\* its lock.
ChanSubscribe ==
  /\ market_id_counter < MaxListeners
  /\ registry_lock.market = 0
  /\ market_id_counter' = market_id_counter + 1
  /\ market_channels' = register(market_channels, market_id_counter + 1)
  /\ UNCHANGED << overflow_checks, portal, ingress, portal_lock, order_channels,
                  tasks, produced, requests, channel_vars >>
  /\ ChanFrame

\* A message of a market stream: dispatch_request(0, EventHistory(sub_id)).
ChanSubscribeMessage(sub_id) ==
  /\ sub_id \in market_channels
  /\ listeners[sub_id].ingress = "Running"
  /\ listeners[sub_id].asked < MaxSubMessages
  /\ ChanDispatch(SubscriberTask(sub_id),
       PortalResult(portal, process_event_history(portal, sub_id),
                    FALSE, << >>, << >>, 0, None))
  /\ UNCHANGED << ingress, requests >>

\* The task that runs dispatch_request panics, on `channels.get(..).unwrap()`
\* or on `tx.send(..).await.unwrap()`: the unwinding drops the guards it
\* holds, and the rest of its tasks is lost.
ChanPanics ==
  /\ tasks' = << >>
  /\ portal_lock' = 0
  /\ registry_lock' = [order |-> 0, market |-> 0]
  /\ sending' = NotSending
  /\ ingress' = IF portal_lock \in Inv
                  THEN [ingress EXCEPT ![portal_lock] = "Panicked"] ELSE ingress
  /\ listeners' = IF portal_lock \in Inv THEN listeners
                  ELSE [listeners EXCEPT ![0 - portal_lock].ingress = "Panicked"]
  /\ UNCHANGED sinks

\* process_task between two tasks: the loop of dispatch_request takes the
\* next task.  An IncrementalEvent has the sub_ids read under the
\* market_channels lock, which is released before any send.  A task for an
\* investor goes to dispatch_to_order_channel, which takes the order_channels
\* lock and looks the sender up.
ChanNextTask ==
  /\ portal_lock # 0
  /\ sending.step = "Next"
  /\ tasks # << >>
  /\ CASE Head(tasks).task = "IncrementalEvent" ->
            /\ registry_lock.market = 0
            /\ sending' = [step |-> "Fan", event |-> wrap_event(Head(tasks).event),
                           snapshot |-> market_channels, left |-> market_channels,
                           base |-> [b \in Listeners |->
                                       Len(sinks[MarketSink(b)].sent)]]
            /\ tasks' = Tail(tasks)
            /\ UNCHANGED << portal_lock, registry_lock, ingress, listeners, sinks >>
       [] Head(tasks).task = "EventHistory" ->
            /\ sending' = [step |-> "History", sub_id |-> Head(tasks).sub_id,
                           events |-> wrap_events(Head(tasks).events)]
            /\ tasks' = Tail(tasks)
            /\ UNCHANGED << portal_lock, registry_lock, ingress, listeners, sinks >>
       [] OTHER ->
            /\ registry_lock.order = 0
            /\ IF order_message(Head(tasks)).val.inv_id \in order_channels
                 THEN /\ registry_lock' = [registry_lock EXCEPT !.order = portal_lock]
                      /\ sending' =
                           [step |-> "Send",
                            sink |-> OrderSink(order_message(Head(tasks)).val.inv_id),
                            msg |-> order_message(Head(tasks)).val.msg,
                            then |-> NotSending]
                      /\ tasks' = Tail(tasks)
                      /\ UNCHANGED << portal_lock, ingress, listeners, sinks >>
                 ELSE ChanPanics
  /\ UNCHANGED << overflow_checks, portal, order_channels, market_id_counter,
                  market_channels, produced, requests >>
  /\ ChanFrame

\* process_task, IncrementalEvent: the next sub_id of the snapshot, in the
\* order the map gave them, which is any; dispatch_to_market_channel takes
\* the market_channels lock and looks the sender up.  After the last sub_id
\* the task is done.
ChanFanNext ==
  /\ sending.step = "Fan"
  /\ IF sending.left = {}
       THEN /\ sending' = NotSending
            /\ UNCHANGED << tasks, portal_lock, registry_lock, ingress, listeners, sinks >>
       ELSE /\ registry_lock.market = 0
            /\ \E b \in sending.left :
                 IF b \in market_channels
                   THEN /\ registry_lock' = [registry_lock EXCEPT !.market = portal_lock]
                        /\ sending' = [step |-> "Send", sink |-> MarketSink(b),
                                       msg |-> sending.event,
                                       then |-> [sending EXCEPT !.left = @ \ {b}]]
                        /\ UNCHANGED << tasks, portal_lock, ingress, listeners, sinks >>
                   ELSE ChanPanics
  /\ UNCHANGED << overflow_checks, portal, order_channels, market_id_counter,
                  market_channels, produced, requests >>
  /\ ChanFrame

\* process_task, EventHistory: the next event of the history; after the last,
\* the task is done.
ChanHistoryNext ==
  /\ sending.step = "History"
  /\ IF sending.events = << >>
       THEN /\ sending' = NotSending
            /\ UNCHANGED << tasks, portal_lock, registry_lock, ingress, listeners, sinks >>
       ELSE /\ registry_lock.market = 0
            /\ IF sending.sub_id \in market_channels
                 THEN /\ registry_lock' = [registry_lock EXCEPT !.market = portal_lock]
                      /\ sending' = [step |-> "Send", sink |-> MarketSink(sending.sub_id),
                                     msg |-> Head(sending.events),
                                     then |-> [sending EXCEPT !.events = Tail(@)]]
                      /\ UNCHANGED << tasks, portal_lock, ingress, listeners, sinks >>
                 ELSE ChanPanics
  /\ UNCHANGED << overflow_checks, portal, order_channels, market_id_counter,
                  market_channels, produced, requests >>
  /\ ChanFrame

\* A send that lets go of the message when the sink is full.
ChanSendOrDrop ==
  /\ sending.step = "Send"
  /\ IF ~sinks[sending.sink].open
       THEN ChanPanics
       ELSE /\ sinks' = IF Full(sending.sink) THEN sinks
                        ELSE [sinks EXCEPT ![sending.sink].sent = Append(@, sending.msg)]
            /\ registry_lock' = [order |-> 0, market |-> 0]
            /\ sending' = sending.then
            /\ UNCHANGED << tasks, portal_lock, ingress, listeners >>
  /\ UNCHANGED << overflow_checks, portal, order_channels, market_id_counter,
                  market_channels, produced, requests >>
  /\ ChanFrame

\* `tx.send(event).await.unwrap()` with the table's guard alive: with the
\* receiver gone the send fails and the unwrap panics; with room on the sink
\* the message goes on it and the guard is dropped; on a full sink the task
\* waits, the guard and the portal lock with it.
ChanSend ==
  /\ sending.step = "Send"
  /\ IF ~sinks[sending.sink].open
       THEN ChanPanics
       ELSE /\ ~Full(sending.sink)
            /\ sinks' = [sinks EXCEPT ![sending.sink].sent = Append(@, sending.msg)]
            /\ registry_lock' = [order |-> 0, market |-> 0]
            /\ sending' = sending.then
            /\ UNCHANGED << tasks, portal_lock, ingress, listeners >>
  /\ UNCHANGED << overflow_checks, portal, order_channels, market_id_counter,
                  market_channels, produced, requests >>
  /\ ChanFrame

\* The end of dispatch_request: the portal's guard is dropped and the stream's
\* next message may be pulled.
ChanEnd ==
  /\ portal_lock # 0
  /\ sending.step = "Next"
  /\ tasks = << >>
  /\ portal_lock' = 0
  /\ UNCHANGED << overflow_checks, portal, ingress, order_channels, tasks,
                  market_id_counter, market_channels, produced, requests,
                  channel_vars >>
  /\ ChanFrame

\* The task behind a sink takes the next message off it for the transport.
ChanEgress(s) ==
  /\ sinks[s].open
  /\ QueueLen(s) > 0
  /\ sinks' = [sinks EXCEPT ![s].taken = @ + 1]
  /\ UNCHANGED << overflow_checks, portal, ingress, portal_lock, order_channels,
                  tasks, market_id_counter, market_channels, produced, requests,
                  registry_lock, sending, listeners >>
  /\ ChanFrame

\* The same with the transport gone: `recv_tx.send(Ok(r)).await.unwrap()`
\* panics and the sink's receiver is dropped with the task.
ChanEgressFails(s) ==
  /\ sinks[s].open
  /\ QueueLen(s) > 0
  /\ Cardinality({t \in Sinks : ~sinks[t].open}) < MaxDrops
  /\ sinks' = [sinks EXCEPT ![s].taken = @ + 1, ![s].open = FALSE]
  /\ UNCHANGED << overflow_checks, portal, ingress, portal_lock, order_channels,
                  tasks, market_id_counter, market_channels, produced, requests,
                  registry_lock, sending, listeners >>
  /\ ChanFrame

\* The steps that need no transport to fail.
NextBackPressure ==
  \/ \E i \in Inv : ChanTryLogin(i)
  \/ \E i \in Inv : ChanRegister(i)
  \/ \E i \in Inv : ChanLoginAck(i)
  \/ \E i \in Inv, req \in StreamOrders : \E tie \in ReqTies(portal, req) :
       ChanNewOrder(i, req, tie)
  \/ ChanSubscribe
  \/ \E b \in Listeners : ChanSubscribeMessage(b)
  \/ ChanNextTask
  \/ ChanFanNext
  \/ ChanHistoryNext
  \/ ChanSend
  \/ ChanEnd
  \/ \E s \in Sinks : ChanEgress(s)

\* The runtime runs a task that can go on, and the tasks behind the sinks
\* keep taking messages off them.
BackPressureFairness ==
  /\ WF_vars(ChanNextTask)
  /\ WF_vars(ChanFanNext)
  /\ WF_vars(ChanHistoryNext)
  /\ WF_vars(ChanSend)
  /\ WF_vars(ChanEnd)
  /\ \A s \in Sinks : WF_vars(ChanEgress(s))

SpecBackPressure == Init /\ [][NextBackPressure]_vars /\ BackPressureFairness

NextChannels ==
  \/ NextBackPressure
  \/ \E s \in Sinks : ChanEgressFails(s)

SpecChannels == Init /\ [][NextChannels]_vars

\* ------------------------------------------------ an order book on its own
\* The requests put to a bare order book, where the price is the caller's.
BookPrices == {Mpf, 2 * Mpf}

BookOrders ==
  [direction : Directions, size : {Lot, 2 * Lot}, price : BookPrices,
   limit_or_market : LimitOrMarket, time_in_force : TimeInForce,
   timestamp : 0 .. MaxTime]

\* The order ids resting live in a book.
RestingIds(book) ==
  {e.order_id : e \in LiveOrders(book.buy_orders \cup book.sell_orders,
                                 book.lazy_deleted)}

\* What a new order to the book returned, with the order as the book saw it.
BookOut(req, m) ==
  [kind |-> "NewOrder", order_id |-> req.order_id, direction |-> req.direction,
   size |-> req.size, price |-> req.price,
   responses |-> IF m.panicked THEN << >> ELSE m.responses,
   iters |-> m.iters, left_size |-> m.left_size, panicked |-> m.panicked]

\* The book after a request; a panic takes the book down with its thread.
BookAfter(id, m) ==
  [book |-> m.book, last_order_id |-> id, down |-> m.panicked]

\* OrderBook::handle_request(NewOrder(req)).
BookNewOrder(req, tie) ==
  /\ ~ob.down
  /\ ob.last_order_id < MaxOrders
  /\ ob' = BookAfter(req.order_id,
             handle_new_order(ob.book, TheTicker, req, tie, overflow_checks))
  /\ ob_out' = BookOut(req,
                 handle_new_order(ob.book, TheTicker, req, tie, overflow_checks))
  /\ UNCHANGED << portal_vars, server_vars, request_vars, client_vars >>

\* OrderBook::handle_request(CancelOrder(order_id)), for an order resting in
\* the book: the portal passes no other cancel on.
BookCancelOrder(order_id) ==
  /\ ~ob.down
  /\ order_id \in RestingIds(ob.book)
  /\ ob' = [ob EXCEPT !.book = handle_cancel_order(@, order_id).book]
  /\ ob_out' = [kind |-> "CancelOrder", order_id |-> order_id,
                responses |-> handle_cancel_order(ob.book, order_id).responses]
  /\ UNCHANGED << portal_vars, server_vars, request_vars, client_vars >>

\* OrderBook::best_buy_price: the pop drops the tombstones it meets.
BookBestBuyPrice(tie) ==
  /\ ~ob.down
  /\ ob' = [ob EXCEPT !.book = best_buy_price(@, tie).book]
  /\ UNCHANGED << ob_out, portal_vars, server_vars, request_vars, client_vars >>

\* OrderBook::best_sell_price.
BookBestSellPrice(tie) ==
  /\ ~ob.down
  /\ ob' = [ob EXCEPT !.book = best_sell_price(@, tie).book]
  /\ UNCHANGED << ob_out, portal_vars, server_vars, request_vars, client_vars >>

NextBook ==
  \/ \E req \in BookOrders : \E tie \in Ties(ob.book) :
       BookNewOrder(ob_request(ob.last_order_id + 1, req), tie)
  \/ \E o \in 1 .. MaxOrders : BookCancelOrder(o)
  \/ \E tie \in Ties(ob.book) : BookBestBuyPrice(tie)
  \/ \E tie \in Ties(ob.book) : BookBestSellPrice(tie)

SpecBook == Init /\ [][NextBook]_vars

\* ------------------------------------------- the portal, request by request
\* The portal on its own again, with the answers it gave on record.  Every
\* request carries the sequence number 1, as from clients that do not number
\* their requests.
\* The tasks that answer a request: OrderAck, OrderReject, CancelReject.
IsAnswer(task) == task.task \in {"OrderAck", "OrderReject", "CancelReject"}

IsOrderAck(task) == task.task = "OrderAck"

\* The number of answers to the request (inv_id, seqnum) = k among the tasks.
Answers(ts, k) ==
  Cardinality({j \in DOMAIN ts : IsAnswer(ts[j]) /\ << ts[j].inv_id, ts[j].seqnum >> = k})

\* The order ids of the OrderAck tasks among the tasks, in order.
AckedIds(ts) ==
  [j \in DOMAIN SelectSeq(ts, IsOrderAck) |-> SelectSeq(ts, IsOrderAck)[j].order_id]

\* One process_request call with its outcome on record: the kind of request,
\* Limit or Market for a new order, and the tasks that came back.
RequestStep(inv_id, kind, limit_or_market, r) ==
  /\ portal' = r.portal
  /\ reply' = [kind |-> kind, limit_or_market |-> limit_or_market,
               tasks |-> Returned(r)]
  /\ answered' = [k \in DOMAIN answered |->
                    IF answered[k] + Answers(Returned(r), k) > 1 THEN 2
                    ELSE answered[k] + Answers(Returned(r), k)]
  /\ acked' = acked \o AckedIds(Returned(r))
  /\ ingress' = IF r.panicked THEN [ingress EXCEPT ![inv_id] = "Panicked"] ELSE ingress
  /\ UNCHANGED << overflow_checks, call, dead_refund, drawdown, charged,
                  server_vars, book_vars, client_vars >>

\* The new orders put to the portal here: one lot each, or none that passes.
RequestOrders == {req \in NewOrderReqs : req.size # 2 * Lot}

\* Portal::process_request(seqnum, NewOrder(inv_id, req)).
RequestNewOrder(inv_id, seqnum, req, tie) ==
  /\ ingress[inv_id] = "Authenticated"
  /\ portal.last_order_id < MaxOrders
  /\ RequestStep(inv_id, "NewOrder", req.limit_or_market,
       process_portal_new_order(portal, inv_id, seqnum, req, tie, overflow_checks))

\* Portal::process_request(seqnum, CancelOrder(inv_id, order_id)).
RequestCancelOrder(inv_id, seqnum, order_id) ==
  /\ ingress[inv_id] = "Authenticated"
  /\ RequestStep(inv_id, "CancelOrder", "None",
       process_portal_cancel_order(portal, inv_id, seqnum, order_id))

\* Portal::try_login for a session's Login message.
RequestLogin(inv_id) ==
  /\ TryLogin(inv_id)
  /\ UNCHANGED << server_vars, request_vars, client_vars >>

NextRequests ==
  \/ \E i \in Inv : RequestLogin(i)
  \/ \E i \in Inv, req \in RequestOrders : \E tie \in ReqTies(portal, req) :
       RequestNewOrder(i, 1, req, tie)
  \/ \E i \in Inv, o \in 1 .. MaxOrders : RequestCancelOrder(i, 1, o)

SpecRequests == Init /\ [][NextRequests]_vars

\* ------------------------------------------------------- matching: claims
\* The matching iterations of the last new order put to the book.
BookIters == IF ob_out.kind = "NewOrder" THEN ob_out.iters ELSE << >>

\* Resting order a has priority over resting order b, both on the side
\* opposite to an incoming order of the given direction.
Outranks(direction, a, b) ==
  \/ (direction = "Sell" /\ a.price > b.price)
  \/ (direction = "Buy" /\ a.price < b.price)
  \/ (a.price = b.price /\ a.timestamp < b.timestamp)

\* C1: price-time priority.  In every iteration of a matching loop, no live
\* resting order left on the opposite side has priority over the popped one:
\* none has a better price, and none has the same price and an earlier
\* timestamp.
C1_PriceTimePriority ==
  \A k \in DOMAIN BookIters : \A o \in BookIters[k].others :
    ~Outranks(ob_out.direction, o, BookIters[k].best)

\* C1 witness: an incoming sell matched a buy while a buy of the same price
\* and a later timestamp was resting.
C1_Witness ==
  /\ ob_out.kind = "NewOrder" /\ ob_out.direction = "Sell"
  /\ \E k \in DOMAIN BookIters : \E o \in BookIters[k].others :
       /\ o.price = BookIters[k].best.price
       /\ o.timestamp > BookIters[k].best.timestamp

\* C2: no crossed book.  After every request, when the book has a live best
\* buy and a live best sell, the best buy price is strictly less than the
\* best sell price.
C2_NoCrossedBook ==
  (best_buy_price(ob.book, "first").price.some
     /\ best_sell_price(ob.book, "first").price.some)
  => best_buy_price(ob.book, "first").price.val
       < best_sell_price(ob.book, "first").price.val

\* C2 witness: a new order came to rest in a book that has both sides.
C2_Witness ==
  /\ ob_out.kind = "NewOrder" /\ ~ob_out.panicked
  /\ ob_out.order_id \in RestingIds(ob.book)
  /\ best_buy_price(ob.book, "first").price.some
  /\ best_sell_price(ob.book, "first").price.some

\* C3 (as claimed): in every iteration of a matching loop the fill size is
\* min(left, best.size), left being the incoming order's unfilled quantity
\* at that iteration, and left does not go below zero.
C3_FillIsMinOfLeft ==
  \A k \in DOMAIN BookIters :
    /\ BookIters[k].fill_size = UMin(BookIters[k].left_size, BookIters[k].best.size)
    /\ ~ULt(BookIters[k].left_size, BookIters[k].fill_size)

IsTradeLog(l) == l.type \in {"OrderFill", "OrderExecuted"}

\* The OrderFill and OrderExecuted logs the last new order returned.
TradeLogs ==
  IF ob_out.kind = "NewOrder" THEN SelectSeq(ob_out.responses, IsTradeLog) ELSE << >>

\* The four trade logs of the k-th match: the maker's, then the taker's.
MatchLogsAt(maker_id, taker_id, size, price) ==
  << OrderFill(maker_id, size, price), OrderExecuted(maker_id, TheTicker, size, price),
     OrderFill(taker_id, size, price), OrderExecuted(taker_id, TheTicker, size, price) >>

\* C4: every trade executes at the maker's price.  The OrderFill and
\* OrderExecuted logs of each match, maker's and taker's, carry the popped
\* resting order's price, and that price is no worse than the incoming
\* order's limit.
C4_MakerPrice ==
  /\ \A k \in DOMAIN BookIters :
       /\ BookIters[k].fill_price = BookIters[k].best.price
       /\ ob_out.direction = "Buy" => BookIters[k].fill_price <= ob_out.price
       /\ ob_out.direction = "Sell" => BookIters[k].fill_price >= ob_out.price
  /\ (ob_out.kind = "NewOrder" /\ ~ob_out.panicked) =>
       /\ Len(TradeLogs) = 4 * Len(BookIters)
       /\ \A k \in DOMAIN BookIters :
            SubSeq(TradeLogs, 4 * k - 3, 4 * k)
              = MatchLogsAt(BookIters[k].best.order_id, ob_out.order_id,
                            BookIters[k].fill_size, BookIters[k].best.price)

\* C4 witness: an incoming buy traded below its limit.
C4_Witness ==
  /\ ob_out.kind = "NewOrder" /\ ob_out.direction = "Buy" /\ ~ob_out.panicked
  /\ \E k \in DOMAIN BookIters : BookIters[k].best.price < ob_out.price

\* ------------------------------------------------------ settlement: claims
Bind == portal.order_info.bind

Accounts == portal.account_manager.accounts

\* The orders of an investor in one direction.
OrdersOf(inv_id, direction) ==
  {o \in DOMAIN Bind : Bind[o].inv_id = inv_id /\ Bind[o].direction = direction}

RECURSIVE TradedCash(_, _)
\* Sum of execution_price x execution_size over the executions of the given
\* orders in a sequence of events.
TradedCash(events, ids) ==
  IF events = << >> THEN Cash(0)
  ELSE CashAdd(
         IF Head(events).type = "OrderExecuted" /\ Head(events).order_id \in ids
           THEN SizeTimesPrice(Head(events).execution_size,
                               Head(events).execution_price)
           ELSE Cash(0),
         TradedCash(Tail(events), ids))

RECURSIVE FilledSize(_, _)
\* The quantity executed for an order in a sequence of events.
FilledSize(events, order_id) ==
  IF events = << >> THEN 0
  ELSE FilledSize(Tail(events), order_id)
         + (IF Head(events).type = "OrderExecuted" /\ Head(events).order_id = order_id
              THEN Head(events).execution_size ELSE 0)

RECURSIVE ReservedUnfilled(_)
\* Sum over the given buy orders of limit_price x (size - filled size).
ReservedUnfilled(ids) ==
  IF ids = {} THEN Cash(0)
  ELSE CashAdd(
         Cash(Bind[CHOOSE o \in ids : TRUE].limit_price
                * (Bind[CHOOSE o \in ids : TRUE].initial_size
                     - FilledSize(portal.event_history, CHOOSE o \in ids : TRUE))),
         ReservedUnfilled(ids \ {CHOOSE o \in ids : TRUE}))

SellFills(inv_id) == TradedCash(portal.event_history, OrdersOf(inv_id, "Sell"))

BuyFills(inv_id) == TradedCash(portal.event_history, OrdersOf(inv_id, "Buy"))

InitialCash(inv_id) == Cash(InvestorConfig[inv_id].cash_amount)

NewOrderDone == call.kind = "NewOrder"

CancelDone == call.kind = "CancelOrder"

SettledOf(order_id, type) ==
  {k \in DOMAIN call.settled :
     call.settled[k].resp.order_id = order_id /\ call.settled[k].resp.type = type}

\* The last request was a new order that died in it without a fill.
DiedWithoutFill ==
  /\ NewOrderDone /\ ~call.panicked
  /\ SettledOf(call.order_id, "OrderDead") # {}
  /\ SettledOf(call.order_id, "OrderFill") = {}

\* C7 (as claimed): when an accepted order dies without any fill, what was
\* reserved at submission is given back: the owner's cash (buy) or position
\* (sell) after the request equals its value before the request.
C7_DrawdownRestored ==
  DiedWithoutFill => Accounts[call.inv_id] = call.before.accounts[call.inv_id]

\* The account of the owner after a cancel refund of the given resting size.
Refunded(acc, order_rec, resting_size) ==
  IF order_rec.direction = "Buy"
    THEN [acc EXCEPT !.cash = CashAdd(@, SizeTimesPrice(resting_size,
                                                        order_rec.limit_price))]
    ELSE [acc EXCEPT !.positions[order_rec.ticker] = @ + resting_size]

\* What the drawdown of an order took, as a refund would give it back.
RefundOfDrawdown(acc, p_order) ==
  IF p_order.type = "PotentialBuy"
    THEN [acc EXCEPT !.cash = CashAdd(@, p_order.total_price)]
    ELSE [acc EXCEPT !.positions[p_order.ticker] = @ + p_order.size]

\* C8: cancel refund.  A successful cancel refunds the size that rested when
\* the OrderDead log was processed, the size Order Info held before the
\* request: resting_size x limit_price in cash for a buy, resting_size shares
\* for a sell, to the owner and to nobody else.  For an order that was never
\* filled that is exactly what its submission took.
C8_CancelRefund ==
  CancelDone =>
    /\ call.settled[1].resp = OrderDead(call.order_id)
    /\ call.settled[1].resting_size = Some(call.before.resting[call.order_id])
    /\ Accounts = [call.before.accounts EXCEPT ![Bind[call.order_id].inv_id] =
                     Refunded(@, Bind[call.order_id],
                              call.before.resting[call.order_id])]
    /\ FilledSize(portal.event_history, call.order_id) = 0 =>
         Accounts = [call.before.accounts EXCEPT ![Bind[call.order_id].inv_id] =
                       RefundOfDrawdown(@, drawdown[call.order_id])]

\* C8 witness: a buy order that was filled in part has been cancelled.
C8_Witness ==
  /\ CancelDone
  /\ Bind[call.order_id].direction = "Buy"
  /\ FilledSize(portal.event_history, call.order_id) > 0

\* The account of the owner after the settlement of one OrderFill.
FillSettled(acc, order_rec, resp) ==
  IF order_rec.direction = "Buy"
    THEN [acc EXCEPT
            !.cash = CashAdd(@, SizeTimesPrice(resp.fill_size,
                                  order_rec.limit_price - resp.fill_price)),
            !.positions[order_rec.ticker] = @ + resp.fill_size]
    ELSE [acc EXCEPT
            !.cash = CashAdd(@, SizeTimesPrice(resp.fill_size, resp.fill_price))]

\* A buy order whose fills add up to its size or more.
CompletelyFilled(order_id) ==
  /\ Bind[order_id].direction = "Buy"
  /\ FilledSize(portal.event_history, order_id) >= Bind[order_id].initial_size

\* C9 (as claimed): fill settlement.  Every OrderFill of a buy order credits
\* the owner's cash fill_size x (limit_price - fill_price) and its position
\* fill_size; every OrderFill of a sell order credits the owner's cash
\* fill_size x fill_price and leaves the position alone.  Consequently a buy
\* order that is completely filled has cost its owner exactly the sum of
\* fill_price x fill_size over its fills.
C9_FillSettlement ==
  /\ (NewOrderDone /\ ~call.panicked) =>
       \A k \in DOMAIN call.settled :
         call.settled[k].resp.type = "OrderFill" =>
           call.settled[k].after
             = FillSettled(call.settled[k].before, call.settled[k].order_rec,
                           call.settled[k].resp)
  /\ \A o \in DOMAIN charged :
       CompletelyFilled(o) => charged[o] = TradedCash(portal.event_history, {o})

\* -------------------------------------------------------- dispatch: claims
\* C10: for every accepted new order, OrderAck(inv_id, seqnum, order_id) is
\* the first task of the list process_request returns, and an OrderFill or
\* OrderDead of an order goes onto its owner's order sink only after the
\* OrderAck of that order went onto it.
C10_AckFirst ==
  /\ (NewOrderDone /\ ~call.panicked) =>
       call.tasks[1] = TaskOrderAck(call.inv_id, call.seqnum, call.order_id)
  /\ (enqueued.some /\ enqueued.val.msg.type \in {"Fill", "Dead"}) =>
       /\ enqueued.val.inv_id = Bind[enqueued.val.msg.order_id].inv_id
       /\ enqueued.val.msg.order_id \in ack_sent[enqueued.val.inv_id]

\* C10 witness: the fill of a resting order has gone onto its owner's sink
\* in the dispatch of another investor's order.
C10_Witness ==
  /\ enqueued.some /\ enqueued.val.msg.type = "Fill"
  /\ portal_lock # 0 /\ portal_lock # enqueued.val.inv_id
  /\ enqueued.val.msg.order_id \in ack_sent[enqueued.val.inv_id]
\* -------------------------------------------------------- requests: claims
\* The new order r accepted took the next order id and acknowledged it; the
\* new order r rejected took none.
NewOrderIdIssued(p, inv_id, r) ==
  IF r.order_id # 0
    THEN /\ r.order_id = p.last_order_id + 1
         /\ r.portal.last_order_id = r.order_id
         /\ r.order_id \notin DOMAIN p.order_info.bind
         /\ ~r.panicked => r.tasks[1] = TaskOrderAck(inv_id, 1, r.order_id)
    ELSE /\ r.portal.last_order_id = p.last_order_id
         /\ \A j \in DOMAIN r.tasks : r.tasks[j].task # "OrderAck"

\* The cancel request r took no order id.
CancelIdKept(p, r) ==
  /\ r.portal.last_order_id = p.last_order_id
  /\ \A j \in DOMAIN r.tasks : r.tasks[j].task # "OrderAck"

\* C11: order ids come from a monotone counter that starts at 1.  The k-th
\* OrderAck of the run carries order id k, the orders on record are exactly
\* 1 .. last_order_id, and in every state every new order request that is
\* accepted takes last_order_id + 1, while every rejected new order and
\* every cancel request leaves the counter alone.
C11_OrderIds ==
  /\ \A k \in DOMAIN acked : acked[k] = k
  /\ Len(acked) = portal.last_order_id
  /\ DOMAIN Bind = 1 .. portal.last_order_id
  /\ \A i \in Inv, req \in NewOrderReqs : \A tie \in ReqTies(portal, req) :
       NewOrderIdIssued(portal, i,
         process_portal_new_order(portal, i, 1, req, tie, overflow_checks))
  /\ \A i \in Inv, o \in 1 .. MaxOrders :
       CancelIdKept(portal, process_portal_cancel_order(portal, i, 1, o))

\* C11 witness: after two accepted orders a new order was rejected, and the
\* counter still stands at 2.
C11_Witness ==
  /\ acked = << 1, 2 >>
  /\ portal.last_order_id = 2
  /\ reply.kind = "NewOrder"
  /\ reply.tasks # << >> /\ reply.tasks[1].task = "OrderReject"

\* C12 (as claimed): at-most-once acknowledgement.  Over the whole run, for
\* each (inv_id, seqnum) pair the portal has emitted at most one task among
\* OrderAck, OrderReject and CancelReject.
C12_AtMostOnce == \A k \in DOMAIN answered : answered[k] <= 1

\* A new order that is off the tick or the lot: unknown ticker, a price that
\* is not an integral multiple of the mpf, size zero or off the lot size.
OffTickOrLot(req) ==
  \/ req.ticker \notin DOMAIN StockRecord
  \/ req.price % StockRecord[req.ticker].mpf # 0
  \/ req.size = 0
  \/ req.size % StockRecord[req.ticker].lot_size # 0

\* What C13 says process_request returns for such an order: the portal as it
\* was, and the one OrderReject.
TickLotRejected(p, inv_id, seqnum) ==
  PortalResult(p, << TaskOrderReject(inv_id, seqnum, InvalidPriceOrSize) >>,
               FALSE, << >>, << >>, 0, None)

\* C13 (as claimed): tick/lot rejection.  In every state, a new order with an
\* unknown ticker, a price that is not an integral multiple of the mpf, or a
\* size that is zero or not divisible by the lot size yields exactly the one
\* task OrderReject(inv_id, seqnum, "Invalid new order request: Invalid price
\* or size") and leaves the portal (accounts, order ids, order info, books,
\* event log) as it was.
C13_TickLotRejection ==
  \A i \in Inv, req \in NewOrderReqs : \A tie \in ReqTies(portal, req) :
    OffTickOrLot(req) =>
      process_portal_new_order(portal, i, 1, req, tie, overflow_checks)
        = TickLotRejected(portal, i, 1)

\* The price C14 and C19 give a new order: a Market order is priced from the
\* opposite side of the book or the close price, a Limit order has its own.
ClaimedPrice(p, req, tie) ==
  IF req.limit_or_market = "Market"
    THEN fill_in_market_order(p, req, tie).req.price
    ELSE req.price

\* The investor cannot pay price x size (buy), or does not hold size shares
\* of the ticker (sell).
CannotCover(p, inv_id, req, price) ==
  IF req.direction = "Buy"
    THEN ~CashGe(p.account_manager.accounts[inv_id].cash,
                 SizeTimesPrice(req.size, price))
    ELSE ULt(p.account_manager.accounts[inv_id].positions[req.ticker], req.size)

\* The live resting orders of every book of a portal.
LiveBooks(p) ==
  [t \in Tickers |->
     [buy_orders |-> LiveOrders(p.orderbook_manager[t].buy_orders,
                                p.orderbook_manager[t].lazy_deleted),
      sell_orders |-> LiveOrders(p.orderbook_manager[t].sell_orders,
                                 p.orderbook_manager[t].lazy_deleted)]]

\* The request r was turned down for cash or lot, with nothing consumed.
RiskRejected(p, inv_id, r) ==
  /\ r.tasks = << TaskOrderReject(inv_id, 1, InsufficientCashOrLot) >>
  /\ r.order_id = 0
  /\ r.portal.last_order_id = p.last_order_id
  /\ r.portal.account_manager = p.account_manager
  /\ LiveBooks(r.portal) = LiveBooks(p)
  /\ r.portal.event_history = p.event_history

\* C14 (as claimed): pre-trade risk rejection.  In every state, a new order
\* on the tick and the lot is answered by exactly the one OrderReject
\* "... Insufficient cash or lot to complete the order", with no order id
\* consumed and accounts, live resting orders and event log unchanged, if
\* and only if the investor's current cash is less than price x size (buy) or
\* its current position in the ticker is less than size (sell).
C14_RiskRejection ==
  \A i \in Inv, req \in NewOrderReqs \ {q \in NewOrderReqs : OffTickOrLot(q)} :
    \A tie \in ReqTies(portal, req) :
      RiskRejected(portal, i,
          process_portal_new_order(portal, i, 1, req, tie, overflow_checks))
        <=> CannotCover(portal, i, req, ClaimedPrice(portal, req, tie))

\* Order Info holds a non-zero resting size for the order.
HasResting(order_id) ==
  /\ order_id \in DOMAIN portal.order_info.resting
  /\ portal.order_info.resting[order_id] # 0

\* The event log has an event of the given type for the order.
Logged(type, order_id) ==
  \E j \in DOMAIN portal.event_history :
    /\ portal.event_history[j].type = type
    /\ portal.event_history[j].order_id = order_id

\* The order is on record and its executions add up to its size.
FullyExecuted(order_id) ==
  /\ order_id \in DOMAIN Bind
  /\ FilledSize(portal.event_history, order_id) = Bind[order_id].initial_size

\* The order cannot be cancelled by inv_id, for one of the reasons C15 lists:
\* unknown, never added to the book, fully executed, removed, not the owner.
NotCancellable(order_id, inv_id) ==
  \/ order_id \notin DOMAIN Bind
  \/ ~Logged("OrderAdded", order_id)
  \/ FullyExecuted(order_id)
  \/ Logged("OrderRemoved", order_id)
  \/ Bind[order_id].inv_id # inv_id

\* C15: valid_cancel_order(order_id, inv_id) is true if and only if Order
\* Info holds a non-zero resting size for the order and the order's recorded
\* owner is inv_id; it is false for an unknown order, an order never added to
\* the book, an order fully executed or already removed, and for a requester
\* that is not the owner.
C15_ValidCancel ==
  \A i \in Inv, o \in 1 .. MaxOrders + 1 :
    /\ valid_cancel_order(portal.order_info, o, i).ok
         <=> (HasResting(o) /\ o \in DOMAIN Bind /\ Bind[o].inv_id = i)
    /\ NotCancellable(o, i) => ~valid_cancel_order(portal.order_info, o, i).ok

\* C15 witness: a cancel was turned down while one order on record is fully
\* executed and another rests for an investor other than the requester.
C15_Witness ==
  /\ reply.kind = "CancelOrder"
  /\ reply.tasks # << >> /\ reply.tasks[1].task = "CancelReject"
  /\ \E o \in DOMAIN Bind : FullyExecuted(o)
  /\ \E o \in DOMAIN Bind : HasResting(o) /\ Bind[o].inv_id # reply.tasks[1].inv_id

\* The order rests live in none of the books: it was fully filled, cancelled,
\* died as IOC or Market, or never existed.
DeadOrder(order_id) ==
  \A t \in Tickers : order_id \notin RestingIds(portal.orderbook_manager[t])

\* The order is on record for an investor other than inv_id.
OthersOrder(order_id, inv_id) ==
  order_id \in DOMAIN Bind /\ Bind[order_id].inv_id # inv_id

\* The tombstone set of every book of a portal.
Tombstones(p) == [t \in Tickers |-> p.orderbook_manager[t].lazy_deleted]

\* The cancel r was turned down, with accounts, live resting orders,
\* tombstones and event log as they were.
CancelRejected(p, inv_id, r) ==
  /\ r.tasks = << TaskCancelReject(inv_id, 1, InvalidCancel) >>
  /\ ~r.panicked
  /\ r.portal.account_manager = p.account_manager
  /\ LiveBooks(r.portal) = LiveBooks(p)
  /\ Tombstones(r.portal) = Tombstones(p)
  /\ r.portal.event_history = p.event_history

\* C16: in every state, a cancel of an order that is dead (fully filled,
\* cancelled before, died as IOC or Market, or never existed) or that belongs
\* to another investor is answered by exactly the one CancelReject "Invalid
\* cancel order request" and leaves accounts, the live resting orders of
\* every book, the tombstone sets and the event log unchanged; so a second
\* cancel of an order refunds nothing.
C16_DeadCancel ==
  \A i \in Inv, o \in 0 .. MaxOrders + 1 :
    DeadOrder(o) \/ OthersOrder(o, i)
      => CancelRejected(portal, i, process_portal_cancel_order(portal, i, 1, o))

\* C16 witness: a cancel was just turned down for an order that an earlier
\* cancel of its owner had removed.
C16_Witness ==
  /\ reply.kind = "CancelOrder"
  /\ reply.tasks # << >> /\ reply.tasks[1].task = "CancelReject"
  /\ \E o \in DOMAIN Bind :
       /\ Logged("OrderRemoved", o)
       /\ Bind[o].inv_id = reply.tasks[1].inv_id
       /\ \A q \in DOMAIN Bind : ~HasResting(q)

\* ------------------------------------------------------- the book: claims
\* The cancel r of order_id on book left both heaps alone, set the tombstone
\* and returned OrderDead then OrderRemoved, and nothing else.
CancelledLazily(book, order_id, r) ==
  /\ r.book.lazy_deleted = book.lazy_deleted \cup {order_id}
  /\ r.book.buy_orders = book.buy_orders
  /\ r.book.sell_orders = book.sell_orders
  /\ ~r.panicked
  /\ Len(r.responses) = 2
  /\ r.responses[1].log = "OrderLog" /\ r.responses[1].type = "OrderDead"
  /\ r.responses[1].order_id = order_id
  /\ r.responses[2].log = "EventLog" /\ r.responses[2].type = "OrderRemoved"
  /\ r.responses[2].order_id = order_id

\* C17: in every state of the book, a cancel of any order id adds the id to
\* the lazily-deleted set and returns exactly two logs, OrderDead(order_id)
\* then OrderRemoved(order_id), without touching either heap.
C17_LazyCancel ==
  \A o \in 0 .. MaxOrders + 1 :
    CancelledLazily(ob.book, o, handle_cancel_order(ob.book, o))

\* C17 witness: the book has just cancelled an order; its tombstone is set
\* and its entry is still in a heap.
C17_Witness ==
  /\ ob_out.kind = "CancelOrder"
  /\ ob_out.order_id \in ob.book.lazy_deleted
  /\ ob_out.responses = << OrderDead(ob_out.order_id), OrderRemoved(ob_out.order_id) >>
  /\ \E e \in ob.book.buy_orders \cup ob.book.sell_orders : e.order_id = ob_out.order_id

\* The heap of a book on the side of a direction.
OwnSide(book, direction) ==
  IF direction = "Buy" THEN book.buy_orders ELSE book.sell_orders

\* The logs of a given type for an order in a sequence of logs.
LogsOf(responses, type, order_id) ==
  {j \in DOMAIN responses :
     responses[j].type = type /\ responses[j].order_id = order_id}

\* What is left of a new order after the fills the book reported for it.
LeftAfter(req, m) == req.size - FilledSize(m.responses, req.order_id)

\* The outcome m of the new order req, given what the matching loop left of
\* it: with something left of a Limit Day order, the order is in its own
\* side's heap with that size and OrderAdded with that size is the last log;
\* otherwise OrderDead is the last log, once, and the order is in no heap.
RestsIffLeft(req, m, left) ==
  IF left > 0 /\ req.limit_or_market = "Limit" /\ req.time_in_force = "Day"
    THEN /\ [order_id |-> req.order_id, size |-> left, price |-> req.price,
             timestamp |-> req.timestamp] \in OwnSide(m.book, req.direction)
         /\ m.responses # << >>
         /\ m.responses[Len(m.responses)]
              = OrderAdded(req.order_id, TheTicker, req.direction, left, req.price)
         /\ LogsOf(m.responses, "OrderDead", req.order_id) = {}
    ELSE /\ m.responses # << >>
         /\ m.responses[Len(m.responses)] = OrderDead(req.order_id)
         /\ Cardinality(LogsOf(m.responses, "OrderDead", req.order_id)) = 1
         /\ LogsOf(m.responses, "OrderAdded", req.order_id) = {}
         /\ \A e \in m.book.buy_orders \cup m.book.sell_orders :
              e.order_id # req.order_id

\* C18: resting predicate.  In every state of the book, a new order that
\* comes out of the matching loop is put into its own side's heap with
\* size = left, its price and its timestamp, and OrderAdded(resting_size =
\* left) is emitted, if and only if left > 0 and the order is Limit and Day,
\* left being what the fills have left of the order's size; in every other
\* case (fully filled, IOC or Market) exactly one OrderDead for the order is
\* emitted, as the last log, and the order is not in the book.
C18_RestingPredicate ==
  ~ob.down =>
    \A req \in BookOrders : \A tie \in Ties(ob.book) :
      ~handle_new_order(ob.book, TheTicker, ob_request(ob.last_order_id + 1, req),
                        tie, overflow_checks).panicked
        => RestsIffLeft(
             ob_request(ob.last_order_id + 1, req),
             handle_new_order(ob.book, TheTicker, ob_request(ob.last_order_id + 1, req),
                              tie, overflow_checks),
             LeftAfter(
               ob_request(ob.last_order_id + 1, req),
               handle_new_order(ob.book, TheTicker, ob_request(ob.last_order_id + 1, req),
                                tie, overflow_checks)))

\* ------------------------------------------------- market orders: claims
\* The live orders a new order of the request would trade against.
LiveOpposite(p, req) ==
  LiveOrders(IF req.direction = "Buy"
               THEN p.orderbook_manager[req.ticker].sell_orders
               ELSE p.orderbook_manager[req.ticker].buy_orders,
             p.orderbook_manager[req.ticker].lazy_deleted)

\* The best live opposite price for the request (lowest sell for a buy,
\* highest buy for a sell), or the close price of the ticker without one.
MarketPrice(p, req) ==
  IF LiveOpposite(p, req) = {} THEN StockRecord[req.ticker].close_price
  ELSE CHOOSE x \in {e.price : e \in LiveOpposite(p, req)} :
         \A e \in LiveOpposite(p, req) :
           IF req.direction = "Buy" THEN x <= e.price ELSE x >= e.price

\* The new order req of inv_id, handled on portal p with outcome r, went by
\* the price: turned down exactly when the investor cannot cover it at that
\* price, and otherwise reserved, put on record and matched at it (every fill
\* at that price, against a live opposite order).
HandledAtPrice(p, inv_id, req, r, price) ==
  /\ r.order_id = 0 <=> CannotCover(p, inv_id, req, price)
  /\ r.order_id # 0 =>
       /\ r.p_order = Some(make_potential_order([req EXCEPT !.price = price]))
       /\ r.portal.order_info.bind[r.order_id].limit_price = price
       /\ \A k \in DOMAIN r.iters :
            /\ r.iters[k].fill_price = price
            /\ r.iters[k].best \in LiveOpposite(p, req)

\* C19: market-order price fill-in.  In every state, a Market new order on
\* the tick and the lot is handled at the best live opposite price of its
\* ticker (best sell for a buy, best buy for a sell), or at the close price
\* when the opposite side has no live order: that price, not the request's,
\* is the one of the risk check, the reservation, the order record and the
\* matching.
C19_MarketFillIn ==
  \A i \in Inv, req \in {q \in ValidNewOrders : q.limit_or_market = "Market"} :
    \A tie \in ReqTies(portal, req) :
      HandledAtPrice(portal, i, req,
                     process_portal_new_order(portal, i, 1, req, tie, overflow_checks),
                     MarketPrice(portal, req))

\* C19 witness: a Market order sent at one tick has just been accepted and
\* filled against a resting order at the best opposite price, and is on
\* record at that price.
C19_Witness ==
  /\ reply.kind = "NewOrder" /\ reply.limit_or_market = "Market"
  /\ Len(reply.tasks) > 1 /\ reply.tasks[1].task = "OrderAck"
  /\ Bind[reply.tasks[1].order_id].limit_price = StockRecord[TheTicker].close_price
  /\ Bind[reply.tasks[1].order_id].limit_price # Mpf
  /\ \E j \in DOMAIN reply.tasks :
       /\ reply.tasks[j].task = "IncrementalEvent"
       /\ reply.tasks[j].event.type = "OrderExecuted"
       /\ reply.tasks[j].event.order_id = reply.tasks[1].order_id
       /\ reply.tasks[j].event.execution_price = Bind[reply.tasks[1].order_id].limit_price

\* ------------------------------------------------- the event log: claims
\* An OrderAdded for the order stands in the log before position j.
AddedBefore(events, j, order_id) ==
  \E k \in 1 .. j - 1 :
    events[k].type = "OrderAdded" /\ events[k].order_id = order_id

\* The log after a step is the log before it with events put to its end.
Appended(before, after) ==
  /\ Len(before) <= Len(after)
  /\ SubSeq(after, 1, Len(before)) = before

\* In this step the portal accepted a new order and gave it this order id.
Aggressor(order_id) ==
  portal'.last_order_id = portal.last_order_id + 1 /\ order_id = portal'.last_order_id

\* Every event this step put to the log is in order: an OrderExecuted names
\* an order added earlier in the log or the order this step's request
\* brought, an OrderRemoved an order added earlier in the log.
NewEventsInOrder ==
  \A j \in Len(portal.event_history) + 1 .. Len(portal'.event_history) :
    /\ portal'.event_history[j].type = "OrderExecuted" =>
         \/ AddedBefore(portal'.event_history, j, portal'.event_history[j].order_id)
         \/ Aggressor(portal'.event_history[j].order_id)
    /\ portal'.event_history[j].type = "OrderRemoved" =>
         AddedBefore(portal'.event_history, j, portal'.event_history[j].order_id)

\* C20: event log monotonicity.  Every step only appends to the event log
\* (no event is removed, reordered or modified); every OrderExecuted put to
\* it names an order that has an earlier OrderAdded in the log or is the
\* aggressor of the request that produced the event; every OrderRemoved put
\* to it is preceded in the log by an OrderAdded for the same order.
C20_EventLogMonotone ==
  [][Appended(portal.event_history, portal'.event_history) /\ NewEventsInOrder]_vars

\* C20 witness: the log holds an execution of an aggressor that was never
\* added to the book, an execution of an order added before, and a removal.
C20_Witness ==
  /\ \E j \in DOMAIN portal.event_history :
       /\ portal.event_history[j].type = "OrderExecuted"
       /\ ~Logged("OrderAdded", portal.event_history[j].order_id)
  /\ \E j \in DOMAIN portal.event_history :
       /\ portal.event_history[j].type = "OrderExecuted"
       /\ AddedBefore(portal.event_history, j, portal.event_history[j].order_id)
  /\ \E j \in DOMAIN portal.event_history :
       /\ portal.event_history[j].type = "OrderRemoved"
       /\ AddedBefore(portal.event_history, j, portal.event_history[j].order_id)

\* ------------------------------------------------------ streams: claims
\* The event log as a subscriber is to see it.
WrappedLog == wrap_events(portal.event_history)

\* The subscriber's history request has been served and no dispatch is under
\* way, with its transport up.
Served(sub_id) ==
  /\ subscribers[sub_id].asked > 0
  /\ subscribers[sub_id].ingress = "Running"
  /\ MarketSink(sub_id) \notin dropped
  /\ portal_lock = 0

\* C21: subscription replay.  In every state, what a subscriber has been
\* sent on its market sink is the event log from its first event on, in log
\* order, with no event missing, twice or out of order: a prefix of the log
\* while events are on their way, and the whole log once the subscriber's
\* history request is served and no dispatch is under way.
C21_SubscriptionReplay ==
  \A b \in market_channels :
    /\ Appended(market_out[b], WrappedLog)
    /\ Served(b) => market_out[b] = WrappedLog

\* Two messages of a sink stand in it against the order of their events in
\* the log.
Inverted(out, a, b) ==
  /\ a < b
  /\ out[a] # out[b]
  /\ \E j, k \in DOMAIN WrappedLog :
       j < k /\ WrappedLog[k] = out[a] /\ WrappedLog[j] = out[b]

\* C22: per-subscriber ordering.  In every state, for every subscriber, the
\* events put on its market sink are in event-log order: if e1 precedes e2 in
\* the log and both were put on the sink, e1 was put on it before e2.
C22_SubscriberOrder ==
  \A b \in market_channels :
    \A x, y \in DOMAIN market_out[b] : ~Inverted(market_out[b], x, y)

\* What was put on an investor's order sink after the LoginAck.
SentAfterLogin(inv_id) == Tail(order_out[inv_id])

\* C23: per-investor ordering.  In every state, the messages put on the
\* order sink of an investor whose transport is up are the messages the
\* portal produced for it, in the order it produced them, and whenever the
\* portal is free to take the next request all of them are on the sink: the
\* whole task list of a request is enqueued before the next request is
\* accepted, and the lists of two requests never interleave.
C23_InvestorOrder ==
  \A i \in order_channels :
    OrderSink(i) \notin dropped =>
      /\ Appended(SentAfterLogin(i), produced[i])
      /\ portal_lock = 0 => SentAfterLogin(i) = produced[i]

\* C24: the portal lock is released before tasks are enqueued.  In every
\* state, while a task of a request is still to be put on a sink, no session
\* holds the portal lock, so that a send that has to wait for room on a slow
\* client's sink keeps no other session from the portal.
C24_LockReleasedBeforeFanOut == tasks # << >> => portal_lock = 0

\* C25: failure isolation.  In every state, the only sessions that have come
\* to an end over a dropped receiver are the ones whose own receiver was
\* dropped: every other investor's and subscriber's session is running, and
\* once the dispatch is over every other investor has on its sink all the
\* messages the portal produced for it.
C25_FailureIsolation ==
  /\ \A i \in Inv : ingress[i] = "Panicked" => OrderSink(i) \in dropped
  /\ \A b \in 1 .. MaxSubs :
       subscribers[b].ingress = "Panicked" => MarketSink(b) \in dropped
  /\ \A i \in order_channels :
       portal_lock = 0 /\ OrderSink(i) \notin dropped
         => Len(SentAfterLogin(i)) = Len(produced[i])

\* --------------------------------------------------------- sessions: claims
\* Session c handles a Login message in this step.
LoginHandled(c) ==
  /\ sessions[c].state \in {"AwaitLogin", "Authenticated"}
  /\ sessions'[c].state # sessions[c].state
  /\ sessions'[c].last.kind = "Login"

\* The Login of this step is answered on session c by LoginRej(seqnum, "login
\* failed"), the session closes with none of its requests dispatched, and the
\* accounts stay logged in or out as they were.
LoginRejected(c) ==
  /\ sessions'[c].state = "Closed"
  /\ sessions'[c].out =
       Append(sessions[c].out, LoginRej(sessions'[c].last.seqnum, LoginFailed))
  /\ sessions'[c].forwarded = 0
  /\ portal'.account_manager.login_accs = portal.account_manager.login_accs
  /\ order_channels' = order_channels

\* The Login of this step cannot succeed: its investor is logged in already,
\* or is unknown, or the password is wrong.
LoginMustFail(c) ==
  \/ sessions'[c].last.inv_id \in portal.account_manager.login_accs
  \/ sessions'[c].last.inv_id \notin Inv
  \/ ~sessions'[c].last.password_ok

LoginStep == \A c \in Sessions : LoginHandled(c) /\ LoginMustFail(c) => LoginRejected(c)

\* C26: a Login for an investor already logged in (from any session, with the
\* right password or not), for an unknown investor or with a wrong password
\* is answered by LoginRej(seqnum, "login failed"); that session closes with
\* no request of it dispatched, and no account is marked logged in.
C26_LoginRejected == [][LoginStep]_vars

\* The same for the first message of a stream only.
FirstLoginStep ==
  \A c \in Sessions :
    LoginHandled(c) /\ LoginMustFail(c) /\ sessions[c].state = "AwaitLogin"
      => LoginRejected(c)

C26_FirstLoginRejected == [][FirstLoginStep]_vars

\* A session whose Login for a logged-in investor was rejected.
C26_Witness ==
  \E c, d \in Sessions :
    /\ sessions[c].state = "Closed"
    /\ sessions[c].last.kind = "Login"
    /\ sessions[c].last.password_ok
    /\ sessions[c].last.inv_id = sessions[d].inv_id
    /\ sessions[d].state = "Authenticated"

\* Session c never logged in: its first message was not a Login.
InvalidFirst(c) ==
  /\ sessions[c].state = "Closed"
  /\ sessions[c].last.kind # "Login"

\* C27: a stream whose first message is not a Login (or that ends or fails
\* before one) gets exactly one LoginRej(0, "invalid first request"), gets no
\* channel, has nothing dispatched and is over; only a session that logged in
\* has requests dispatched.
C27_InvalidFirstRequest ==
  \A c \in Sessions :
    /\ InvalidFirst(c) =>
         /\ sessions[c].out = << LoginRej(0, InvalidFirstRequest) >>
         /\ sessions[c].inv_id = 0
         /\ sessions[c].forwarded = 0
    /\ sessions[c].inv_id = 0 => sessions[c].forwarded = 0
    /\ sessions[c].forwarded > 0 =>
         /\ sessions[c].inv_id \in portal.account_manager.login_accs
         /\ sessions[c].inv_id \in order_channels
         /\ Head(sessions[c].out).type = "LoginAck"
    /\ Cardinality(order_channels) =
         Cardinality({d \in Sessions : sessions[d].inv_id # 0})

\* A stream turned away at its first message beside one that logged in and had
\* a request dispatched.
C27_Witness ==
  \E c, d \in Sessions :
    /\ InvalidFirst(c)
    /\ sessions[c].last.kind = "NewOrder"
    /\ sessions[d].forwarded > 0

\* ----------------------------------------------------- top of book: claims
\* The price a top-of-book query is to return over the live orders of a side:
\* the highest of the buys, the lowest of the sells, none without a live order.
TopPrice(live, direction) ==
  IF live = {}
    THEN None
    ELSE Some(CHOOSE x \in {e.price : e \in live} :
                \A e \in live : IF direction = "Buy" THEN e.price <= x
                                                     ELSE x <= e.price)

\* The query took heap `before` to `after` and the tombstones `dead` to
\* `left` by discarding cancelled entries only, each with its tombstone, and
\* none of them from behind a live order.
OnlyTopTombstonesGone(before, after, dead, left, direction) ==
  /\ after \subseteq before
  /\ \A e \in before \ after : e.order_id \in dead
  /\ left \subseteq dead
  /\ dead \ left = {e.order_id : e \in before \ after}
  /\ \A e \in before \ after : \A f \in LiveOrders(before, dead) :
       IF direction = "Buy" THEN BuyOrderCmp(e, f) # "Less"
                            ELSE SellOrderCmp(e, f) # "Less"

\* best_buy_price on the book, whichever of two equal orders pops first.
BestBuyQuery(book, tie) ==
  /\ best_buy_price(book, tie).price =
       TopPrice(LiveOrders(book.buy_orders, book.lazy_deleted), "Buy")
  /\ LiveOrders(best_buy_price(book, tie).book.buy_orders,
                best_buy_price(book, tie).book.lazy_deleted)
       = LiveOrders(book.buy_orders, book.lazy_deleted)
  /\ LiveOrders(best_buy_price(book, tie).book.sell_orders,
                best_buy_price(book, tie).book.lazy_deleted)
       = LiveOrders(book.sell_orders, book.lazy_deleted)
  /\ best_buy_price(book, tie).book.sell_orders = book.sell_orders
  /\ OnlyTopTombstonesGone(book.buy_orders, best_buy_price(book, tie).book.buy_orders,
                           book.lazy_deleted,
                           best_buy_price(book, tie).book.lazy_deleted, "Buy")

\* best_sell_price on the book.
BestSellQuery(book, tie) ==
  /\ best_sell_price(book, tie).price =
       TopPrice(LiveOrders(book.sell_orders, book.lazy_deleted), "Sell")
  /\ LiveOrders(best_sell_price(book, tie).book.sell_orders,
                best_sell_price(book, tie).book.lazy_deleted)
       = LiveOrders(book.sell_orders, book.lazy_deleted)
  /\ LiveOrders(best_sell_price(book, tie).book.buy_orders,
                best_sell_price(book, tie).book.lazy_deleted)
       = LiveOrders(book.buy_orders, book.lazy_deleted)
  /\ best_sell_price(book, tie).book.buy_orders = book.buy_orders
  /\ OnlyTopTombstonesGone(book.sell_orders, best_sell_price(book, tie).book.sell_orders,
                           book.lazy_deleted,
                           best_sell_price(book, tie).book.lazy_deleted, "Sell")

RECURSIVE MatchLogs(_, _, _)
\* The logs the claim asks of the iterations of one matching loop, in matching
\* order: per maker its OrderFill and OrderExecuted, its OrderDead iff the
\* fill took all of it, then the taker's OrderFill and OrderExecuted.
MatchLogs(iters, taker, ticker) ==
  IF iters = << >> THEN << >>
  ELSE << OrderFill(Head(iters).best.order_id, Head(iters).fill_size,
                    Head(iters).fill_price),
          OrderExecuted(Head(iters).best.order_id, ticker, Head(iters).fill_size,
                        Head(iters).fill_price) >>
       \o (IF Head(iters).fill_size = Head(iters).best.size
             THEN << OrderDead(Head(iters).best.order_id) >> ELSE << >>)
       \o << OrderFill(taker, Head(iters).fill_size, Head(iters).fill_price),
             OrderExecuted(taker, ticker, Head(iters).fill_size,
                           Head(iters).fill_price) >>
       \o MatchLogs(Tail(iters), taker, ticker)

\* The last log of a new order: its OrderAdded or its OrderDead.
FinalLog(log, taker) ==
  /\ log.order_id = taker
  /\ log.type \in {"OrderAdded", "OrderDead"}

\* The logs of a new order are those of its matches in matching order, then
\* its final log and nothing more.
LogsInMatchOrder(logs, iters, taker, ticker) ==
  /\ Len(logs) = Len(MatchLogs(iters, taker, ticker)) + 1
  /\ SubSeq(logs, 1, Len(logs) - 1) = MatchLogs(iters, taker, ticker)
  /\ FinalLog(logs[Len(logs)], taker)

\* The log a task carries.
LogOf(t) == IF t.task = "IncrementalEvent" THEN t.event ELSE t.resp

\* The logs of the tasks after the OrderAck.
LogsOfTasks(ts) == [k \in 1 .. Len(ts) - 1 |-> LogOf(ts[k + 1])]

\* Each task after the OrderAck is of the kind of its log: an event goes out
\* as IncrementalEvent, an order response to the owner of its order.
TasksOfLogs(ts, order_info) ==
  \A k \in 2 .. Len(ts) :
    IF LogOf(ts[k]).log = "EventLog"
      THEN ts[k] = TaskIncrementalEvent(LogOf(ts[k]))
      ELSE ts[k] = TaskOrderResponse(order_info.bind[LogOf(ts[k]).order_id].inv_id,
                                     LogOf(ts[k]))

\* The outcome r of an accepted new order has the logs in match order, turned
\* into tasks one for one behind the OrderAck.
MatchTasks(r, ticker) ==
  (r.order_id # 0 /\ ~r.panicked) =>
     /\ r.tasks[1].task = "OrderAck"
     /\ LogsInMatchOrder(LogsOfTasks(r.tasks), r.iters, r.order_id, ticker)
     /\ TasksOfLogs(r.tasks, r.portal.order_info)

\* C29: within one match the logs are, per matched maker and in matching
\* order, OrderFill(maker), OrderExecuted(maker), OrderDead(maker) iff the
\* maker was completely filled, OrderFill(taker), OrderExecuted(taker); the
\* taker's OrderAdded or OrderDead is the last log; and the portal turns the
\* logs into tasks one for one in the same order.
C29_MatchLogOrder ==
  \A i \in Inv, req \in ValidNewOrders : \A tie \in ReqTies(portal, req) :
    MatchTasks(process_portal_new_order(portal, i, 1, req, tie, overflow_checks),
               req.ticker)

\* The same on the order book alone, for what handle_request returned.
BookLogsInMatchOrder ==
  (ob_out.kind = "NewOrder" /\ ~ob_out.panicked) =>
     LogsInMatchOrder(ob_out.responses, ob_out.iters, ob_out.order_id, TheTicker)

\* A new order was matched with two makers: the event log has the execution
\* of one maker, of the taker, of another maker and of the taker again.
C29_Witness ==
  \E j \in 1 .. Len(portal.event_history) - 3 :
    /\ \A k \in j .. j + 3 : portal.event_history[k].type = "OrderExecuted"
    /\ portal.event_history[j + 1].order_id = portal.event_history[j + 3].order_id
    /\ portal.event_history[j].order_id # portal.event_history[j + 1].order_id
    /\ portal.event_history[j + 2].order_id # portal.event_history[j + 1].order_id
    /\ portal.event_history[j].order_id # portal.event_history[j + 2].order_id

\* ------------------------------------------- partially filled maker: claims
\* The resting side a new order of the given direction is matched against.
MakerCmp(direction, a, b) ==
  IF direction = "Buy" THEN SellOrderCmp(a, b) ELSE BuyOrderCmp(a, b)

\* The live resting orders of that side in a book.
MakerSide(book, direction) ==
  LiveOrders(IF direction = "Buy" THEN book.sell_orders ELSE book.buy_orders,
             book.lazy_deleted)

\* The maker of iteration `it` as it is to be pushed back.
PushedBack(it) == [it.best EXCEPT !.size = @ - it.fill_size]

\* Iteration k of the last new order filled its maker partly.
PartialFill(k) ==
  /\ ob_out.kind = "NewOrder"
  /\ k \in DOMAIN ob_out.iters
  /\ ULt(ob_out.iters[k].fill_size, ob_out.iters[k].best.size)

\* After the partial fill of iteration k the maker rests with its order_id,
\* price and timestamp and the reduced size; it stands to every other resting
\* order of its side as it stood before; and the next order matched, if any,
\* is none that was behind it.
KeepsPriority(k) ==
  /\ \A f \in ob_out.iters[k].others :
       MakerCmp(ob_out.direction, PushedBack(ob_out.iters[k]), f)
         = MakerCmp(ob_out.direction, ob_out.iters[k].best, f)
  /\ IF k < Len(ob_out.iters)
       THEN /\ PushedBack(ob_out.iters[k])
                 \in {ob_out.iters[k + 1].best} \cup ob_out.iters[k + 1].others
            /\ MakerCmp(ob_out.direction, ob_out.iters[k + 1].best,
                        ob_out.iters[k].best) # "Less"
       ELSE PushedBack(ob_out.iters[k]) \in MakerSide(ob.book, ob_out.direction)

\* C30: a partially filled maker keeps its priority.  When fill_size <
\* best.size the maker is pushed back with the same order_id, price and
\* timestamp and its size reduced by fill_size, and is still ahead of every
\* resting order that was behind it before the fill.
C30_PartialMakerPriority ==
  \A k \in DOMAIN BookIters : PartialFill(k) => KeepsPriority(k)

\* A maker has just been filled partly with another order resting behind it,
\* and rests reduced.
C30_Witness ==
  \E k \in DOMAIN BookIters :
    /\ PartialFill(k)
    /\ k = Len(ob_out.iters)
    /\ \E f \in ob_out.iters[k].others :
         MakerCmp(ob_out.direction, ob_out.iters[k].best, f) = "Greater"
    /\ PushedBack(ob_out.iters[k]) \in MakerSide(ob.book, ob_out.direction)

\* -------------------------------------------------- lazy deletion: claims
\* The order ids the event log reports removed.
RemovedIds ==
  {portal.event_history[j].order_id :
     j \in {k \in DOMAIN portal.event_history :
              portal.event_history[k].type = "OrderRemoved"}}

\* No event of an order follows its OrderRemoved in the event log.
NothingAfterRemoved ==
  \A j, k \in DOMAIN portal.event_history :
    (j < k /\ portal.event_history[j].type = "OrderRemoved")
      => portal.event_history[k].order_id # portal.event_history[j].order_id

\* The pop r of heap `heap` of a book with tombstones `dead` returned the top
\* live entry, or none without a live entry, and discarded nothing but
\* tombstoned entries, each with its tombstone.
PopSkipsTombstones(heap, dead, r_heap, r_dead, best, top) ==
  /\ best.some <=> LiveOrders(heap, dead) # {}
  /\ best.some => /\ best.val \in LiveOrders(heap, dead) \cap top
                  /\ best.val \notin r_heap
  /\ \A e \in heap \ r_heap :
       (best.some /\ e = best.val)
         \/ (e.order_id \in dead /\ e.order_id \notin r_dead)
  /\ LiveOrders(r_heap, r_dead) \cup (IF best.some THEN {best.val} ELSE {})
       = LiveOrders(heap, dead)

\* Both pops on a book.
PopsSkipTombstones(book, tie) ==
  /\ PopSkipsTombstones(book.buy_orders, book.lazy_deleted,
       get_best_buy_order(book, tie).book.buy_orders,
       get_best_buy_order(book, tie).book.lazy_deleted,
       get_best_buy_order(book, tie).best,
       BuyHeapTop(LiveOrders(book.buy_orders, book.lazy_deleted)))
  /\ PopSkipsTombstones(book.sell_orders, book.lazy_deleted,
       get_best_sell_order(book, tie).book.sell_orders,
       get_best_sell_order(book, tie).book.lazy_deleted,
       get_best_sell_order(book, tie).best,
       SellHeapTop(LiveOrders(book.sell_orders, book.lazy_deleted)))

\* No maker of the new order's matching was cancelled before, by tombstone or
\* by the event log.
MakersNotCancelled(p, req, r) ==
  \A k \in DOMAIN r.iters :
    /\ r.iters[k].best.order_id \notin p.orderbook_manager[req.ticker].lazy_deleted
    /\ r.iters[k].best.order_id \notin RemovedIds

\* C31: lazy deletion is effective.  An order that has been cancelled is never
\* again maker of a fill nor returned by pop-best or a top-of-book query; when
\* its heap entry comes to the top it is discarded with its tombstone, and the
\* pop goes on to the next live order.
C31_LazyDeletion ==
  /\ NothingAfterRemoved
  /\ \A t \in Tickers :
       /\ \A e \in LiveOrders(portal.orderbook_manager[t].buy_orders
                                \cup portal.orderbook_manager[t].sell_orders,
                              portal.orderbook_manager[t].lazy_deleted) :
            e.order_id \notin RemovedIds
       /\ \A tie \in TieBreaks : PopsSkipTombstones(portal.orderbook_manager[t], tie)
  /\ \A i \in Inv, req \in ValidNewOrders : \A tie \in ReqTies(portal, req) :
       MakersNotCancelled(portal, req,
         process_portal_new_order(portal, i, 1, req, tie, overflow_checks))

\* An order was cancelled, its entry and tombstone have been discarded from
\* the book since, and an order that rested with it was executed after that.
C31_Witness ==
  \E j, k \in DOMAIN portal.event_history :
    /\ j < k
    /\ portal.event_history[j].type = "OrderRemoved"
    /\ portal.event_history[k].type = "OrderExecuted"
    /\ portal.event_history[k].order_id < portal.event_history[j].order_id
    /\ portal.event_history[j].order_id
         \notin portal.orderbook_manager[TheTicker].lazy_deleted
    /\ \A e \in portal.orderbook_manager[TheTicker].buy_orders
                  \cup portal.orderbook_manager[TheTicker].sell_orders :
         e.order_id # portal.event_history[j].order_id

\* ------------------------------------------------ sends one by one: claims
\* process_task is on an IncrementalEvent: between two of its sends, or in one.
InFan ==
  \/ sending.step = "Fan"
  \/ sending.step = "Send" /\ sending.then.step = "Fan"

\* The fan-out in progress.
Fan == IF sending.step = "Fan" THEN sending ELSE sending.then

\* The sub_ids of the snapshot whose send is over.
FanSent ==
  IF sending.step = "Fan" THEN Fan.snapshot \ Fan.left
  ELSE Fan.snapshot \ (Fan.left \cup {sending.sink[2]})

\* What sub_id's sink was sent since the snapshot.
SinceSnapshot(sub_id) ==
  SubSeq(sinks[MarketSink(sub_id)].sent, Fan.base[sub_id] + 1,
         Len(sinks[MarketSink(sub_id)].sent))

\* So far the event went once onto the sink of every sub_id of the snapshot
\* whose send is over, and onto no other sink.
OncePerSnapshot ==
  InFan =>
    /\ Fan.snapshot \subseteq market_channels
    /\ \A b \in Listeners :
         SinceSnapshot(b) = IF b \in FanSent THEN << Fan.event >> ELSE << >>

\* When a fan-out ends, the sink of every sub_id of its snapshot whose receiver
\* lives has been sent the event.
FanCompletes ==
  (InFan /\ ~InFan') =>
    \A b \in Fan.snapshot :
      sinks[MarketSink(b)].open =>
        SubSeq(sinks'[MarketSink(b)].sent, Fan.base[b] + 1,
               Len(sinks'[MarketSink(b)].sent)) = << Fan.event >>

\* C32: for an IncrementalEvent the registered sub_ids are read once, under
\* the market_channels lock, and the event is enqueued exactly once on the
\* sink of every sub_id read; a subscriber that registers later does not get
\* the event from this fan-out.
C32_FanOutSnapshot == [][OncePerSnapshot' /\ FanCompletes]_vars

\* The same as long as every receiver lives.
C32_FanOutLive ==
  [][(\A s \in Sinks : sinks'[s].open) => (OncePerSnapshot' /\ FanCompletes)]_vars

\* A task waits on a full sink.
SendWaits ==
  /\ sending.step = "Send"
  /\ sinks[sending.sink].open
  /\ Full(sending.sink)

\* C33: no lock of the order-channel table or the market-channel table is
\* held while a task waits on a send, so that a full sink keeps no investor
\* or subscriber from being registered.
C33_NoRegistryLockAcrossSend ==
  SendWaits => (registry_lock.order = 0 /\ registry_lock.market = 0)

\* The sender process_task is about to look up is in its table.
LookupFinds ==
  /\ (portal_lock # 0 /\ sending.step = "Next" /\ tasks # << >>
        /\ order_message(Head(tasks)).some)
       => order_message(Head(tasks)).val.inv_id \in order_channels
  /\ sending.step = "Fan" => sending.left \subseteq market_channels
  /\ sending.step = "History" => sending.sub_id \in market_channels
  /\ \A k \in DOMAIN tasks :
       /\ order_message(tasks[k]).some
            => order_message(tasks[k]).val.inv_id \in order_channels
       /\ tasks[k].task = "EventHistory" => tasks[k].sub_id \in market_channels

\* C39: channel lookups never fail.  Whenever dispatch processes a task, the
\* inv_id of an OrderAck, OrderReject, CancelReject or OrderResponse task
\* (makers of other investors included) has a registered order channel, and
\* the sub_id of an EventHistory task or of an IncrementalEvent snapshot has a
\* registered market channel, however logins, subscriptions and requests
\* interleave.
C39_LookupsSucceed == LookupFinds

\* A fill of another investor's resting order is about to be looked up while
\* a market stream has registered since the request began.
C39_Witness ==
  /\ portal_lock \in Inv
  /\ sending.step = "Next"
  /\ tasks # << >>
  /\ order_message(Head(tasks)).some
  /\ order_message(Head(tasks)).val.inv_id # portal_lock
  /\ order_message(Head(tasks)).val.inv_id \in order_channels
  /\ \E i \in Inv : ingress[i] \in {"LoggedIn", "AwaitLogin"} \/ market_channels # {}

\* ---------------------------------------------------- back-pressure: claims
RECURSIVE IsSubSeq(_, _)
\* The messages of `a` are among those of `b`, in the same order.
IsSubSeq(a, b) ==
  IF a = << >> THEN TRUE
  ELSE IF b = << >> THEN FALSE
  ELSE IF Head(a) = Head(b) THEN IsSubSeq(Tail(a), Tail(b))
  ELSE IsSubSeq(a, Tail(b))

\* The messages investor i's sink is to be sent: LoginAck, then those of the
\* tasks the portal returned for i, in order.
DueOrderMessages(i) ==
  IF ingress[i] \in {"AwaitLogin", "LoggedIn", "Registered"} THEN << >>
  ELSE << LoginAck(1) >> \o produced[i]

\* No sink is sent anything but what is due, in order, nor holds more than
\* its capacity.
NothingLostSoFar ==
  /\ \A i \in Inv :
       /\ Len(sinks[OrderSink(i)].sent) <= Len(DueOrderMessages(i))
       /\ sinks[OrderSink(i)].sent
            = SubSeq(DueOrderMessages(i), 1, Len(sinks[OrderSink(i)].sent))
  /\ \A s \in Sinks : QueueLen(s) <= SinkCapacity

\* Every task returned so far has been enqueued: once on its investor's sink,
\* and on the sink of every market stream that was due it.
AllEnqueued ==
  /\ \A i \in Inv : sinks[OrderSink(i)].sent = DueOrderMessages(i)
  /\ \A b \in Listeners : IsSubSeq(listeners[b].owed, sinks[MarketSink(b)].sent)

\* The stream whose request is in dispatch may pull its next message.
MayPullNext == portal_lock = 0 /\ tasks = << >> /\ sending = NotSending

\* C34: back-pressure without loss.  On a full sink the dispatching task
\* waits, dropping and reordering nothing; and with every sink's receiving
\* task draining it, every task the portal produced is eventually enqueued
\* exactly once and the session comes back to pull its next message.
C34_BackPressure ==
  /\ [](NothingLostSoFar /\ (MayPullNext => AllEnqueued))
  /\ (portal_lock # 0) ~> (MayPullNext /\ AllEnqueued)

\* A request's dispatch waits on the full sink of another investor.
C34_Witness ==
  /\ SendWaits
  /\ portal_lock \in Inv
  /\ sending.sink[1] = "order"
  /\ sending.sink # OrderSink(portal_lock)

\* ----------------------------------------------------- no over-fill: claims
RECURSIVE SumFills(_)
\* The sum of the fill sizes of the iterations, as a number.
SumFills(iters) ==
  IF iters = << >> THEN 0 ELSE Head(iters).fill_size + SumFills(Tail(iters))

\* The entries the last new order rests with.
RestingOfLast ==
  {e \in ob.book.buy_orders \cup ob.book.sell_orders : e.order_id = ob_out.order_id}

\* C35: no over-fill.  The fill sizes of the OrderFill logs of an incoming
\* order sum to no more than its requested size, its remaining quantity never
\* underflows, and the size it rests with is the requested size minus the sum
\* of its fills, also when it is matched with several makers and a later
\* maker is larger than what remains.
C35_NoOverFill ==
  ob_out.kind = "NewOrder" =>
    /\ SumFills(ob_out.iters) <= ob_out.size
    /\ \A k \in DOMAIN ob_out.iters :
         ob_out.iters[k].fill_size <= ob_out.size - SumFills(SubSeq(ob_out.iters, 1, k - 1))
    /\ \A e \in RestingOfLast : e.size = ob_out.size - SumFills(ob_out.iters)

\* ----------------------------------------- book and order info agree: claims
\* The order has a non-zero resting entry in Order Info.
RestsInInfo(o) ==
  /\ o \in DOMAIN portal.order_info.resting
  /\ portal.order_info.resting[o] # 0

\* The live heap entries of the order on the given side of its ticker's book.
LiveEntriesOf(o, direction) ==
  {e \in LiveOrders(
           IF direction = "Buy"
             THEN portal.orderbook_manager[portal.order_info.bind[o].ticker].buy_orders
             ELSE portal.orderbook_manager[portal.order_info.bind[o].ticker].sell_orders,
           portal.orderbook_manager[portal.order_info.bind[o].ticker].lazy_deleted) :
     e.order_id = o}

\* The side an order is not of.
OtherDirection(direction) == IF direction = "Buy" THEN "Sell" ELSE "Buy"

\* Order Info and the book say the same of order o.
BookAgrees(o) ==
  /\ RestsInInfo(o) <=>
       /\ Cardinality(LiveEntriesOf(o, portal.order_info.bind[o].direction)) = 1
       /\ LiveEntriesOf(o, OtherDirection(portal.order_info.bind[o].direction)) = {}
  /\ RestsInInfo(o) =>
       \A e \in LiveEntriesOf(o, portal.order_info.bind[o].direction) :
         e.size = portal.order_info.resting[o]
  /\ ~RestsInInfo(o) =>
       LiveEntriesOf(o, portal.order_info.bind[o].direction) = {}

\* Every tombstone of a book is that of an entry in one of its heaps.
TombstonesHaveEntries ==
  \A t \in Tickers :
    \A o \in portal.orderbook_manager[t].lazy_deleted :
      \E e \in portal.orderbook_manager[t].buy_orders
                 \cup portal.orderbook_manager[t].sell_orders : e.order_id = o

\* C36: after every completed portal request, an order has a non-zero resting entry in
\* Order Info iff its ticker's book holds exactly one live heap entry of its
\* order_id, on the side of the order record, and the two sizes are equal;
\* and every tombstone is that of an order_id with an entry in a heap.
C36_BookOrderInfoAgree ==
  (call.kind = "None" \/ ~call.panicked) =>
  /\ \A o \in DOMAIN portal.order_info.bind : BookAgrees(o)
  /\ \A t \in Tickers :
       \A e \in portal.orderbook_manager[t].buy_orders
                  \cup portal.orderbook_manager[t].sell_orders :
         e.order_id \in DOMAIN portal.order_info.bind
  /\ TombstonesHaveEntries

\* ------------------------------------------------- share conservation: claims
\* The shares of a ticker the accounts own.
RECURSIVE OwnedShares(_, _, _)
OwnedShares(accounts, ids, ticker) ==
  IF ids = {} THEN 0
  ELSE LET i == CHOOSE x \in ids : TRUE
       IN accounts[i].positions[ticker] + OwnedShares(accounts, ids \ {i}, ticker)

\* The shares of the entries of a heap.
RECURSIVE HeapShares(_)
HeapShares(heap) ==
  IF heap = {} THEN 0
  ELSE LET e == CHOOSE x \in heap : TRUE
       IN e.size + HeapShares(heap \ {e})

\* The shares of a ticker in the accounts and in its live resting sell orders.
SharesOf(p, ticker) ==
  OwnedShares(p.account_manager.accounts, Inv, ticker)
    + HeapShares(LiveOrders(p.orderbook_manager[ticker].sell_orders,
                            p.orderbook_manager[ticker].lazy_deleted))

\* C37: for every ticker, after every completed portal request, the shares
\* the accounts own plus the resting sizes of the live resting sell orders
\* are the shares the accounts owned initially; no request, an IOC or Market
\* sell that dies with an unfilled remainder and a self-trade included,
\* creates or destroys shares.
C37_ShareConservation ==
  (call.kind = "None" \/ ~call.panicked) =>
    \A t \in Tickers : SharesOf(portal, t) = SharesOf(NewPortal, t)

\* ------------------------------------------------ the logged-in set: claims
\* try_login fails for every investor of the logged-in set, whatever the
\* password, and leaves the set as it is.
LoggedInRejected(am) ==
  \A i \in am.login_accs : \A password_ok \in BOOLEAN :
    /\ ~try_login(am, i, password_ok).ok
    /\ try_login(am, i, password_ok).am = am

\* C38: the logged-in set never shrinks: once try_login has succeeded for an
\* inv_id, every later try_login of that inv_id returns false, also after the
\* investor's session and stream have ended; no operation logs an investor
\* out.
C38_LoggedInForGood ==
  [][/\ portal.account_manager.login_accs \subseteq portal'.account_manager.login_accs
     /\ LoggedInRejected(portal'.account_manager)]_vars

\* One session logged in and has ended, and another session's Login of the
\* same investor, with the password, was rejected.
C38_Witness ==
  \E c, d \in Sessions :
    /\ c # d
    /\ sessions[c].state = "Ended"
    /\ sessions[c].inv_id \in portal.account_manager.login_accs
    /\ sessions[d].state = "Closed"
    /\ sessions[d].last.kind = "Login"
    /\ sessions[d].last.inv_id = sessions[c].inv_id
    /\ sessions[d].last.password_ok
    /\ sessions[d].out = << LoginRej(sessions[d].last.seqnum, LoginFailed) >>

\* -------------------------------------------- arrival-order tie-break: claims
\* Two entries of one side that the side's order cannot tell apart.
SamePriceAndSecond(a, b) == a.price = b.price /\ a.timestamp = b.timestamp

\* C40: among live resting orders of one side with equal price and equal
\* timestamp (of one-second resolution), the order accepted earlier, of the
\* smaller order_id, is matched before the one accepted later.
C40_ArrivalOrderTieBreak ==
  \A k \in DOMAIN BookIters : \A o \in BookIters[k].others :
    SamePriceAndSecond(o, BookIters[k].best) => BookIters[k].best.order_id < o.order_id

====
